---- MODULE Spec2Model ----
(***************************************************************************)
(* Model of the three scripts of the repository.  scripts/merge.py: the     *)
(* pipeline of merge_fonts over an in-memory base font and donor font; a    *)
(* font is a record of tables, a table a function from glyph names          *)
(* (strings) or a sequence of records.  scripts/check_versions.py: one run  *)
(* of main against a versions file and the answers of GitHub.               *)
(* scripts/build_release_notes.py: one run of main over its arguments.      *)
(* Each script has its own specification: Spec, SpecVersions, SpecNotes.    *)
(***************************************************************************)
EXTENDS Integers, Sequences, FiniteSets, TLC

\* ------------------------------------------------------------------ bounds
\* Longest list of cmap subtables an input font carries.
MaxTables == 2
\* Longest component list of a donor composite glyph.
MaxComponents == 2

\* ------------------------------------------------------------ interpreter
\* The depth of the call stack at which the interpreter raises RecursionError
\* (sys.getrecursionlimit(), which merge.py leaves at its default).
RecursionLimit == 1000
\* The frames below the first copy_glyph frame when merge.py runs as a
\* script: <module>, main, merge_fonts, transplant_glyphs.
CallerFrames == 4
\* The library calls of a copy_glyph frame (the outline table's item lookup,
\* copy.deepcopy) put further frames on top of it; how many is the library's
\* and the glyph object's to decide, glyph by glyph.  The model takes every
\* depth up to this one.
MaxLibraryFrames == 16

\* ------------------------------------------------------------- codepoints
BMPMax == 65535          \* 0xFFFF
AsciiLo == 32            \* 0x0020
AsciiHi == 126           \* 0x007E, last value of range(0x0020, 0x007F)
UseTypoMetrics == 128    \* 0x80, bit 7 of fsSelection

\* The codepoints the input fonts map, written digit by digit in base 16.
cpA == 4 * 16 + 1                                  \* U+0041
cpB == 4 * 16 + 2                                  \* U+0042
cpZhong == ((4 * 16 + 14) * 16 + 2) * 16 + 13      \* U+4E2D
cpExt == 2 * 16 * 16 * 16 * 16                     \* U+20000
cpIcon == 15 * 16 * 16 * 16 * 16 + 1               \* U+F0001

\* ------------------------------------------------------------ small tools
\* f with key k set to v (dict item assignment).
Put(f, k, v) == [x \in DOMAIN f \cup {k} |-> IF x = k THEN v ELSE f[x]]

\* f restricted to the keys in S.
Restrict(f, S) == [x \in DOMAIN f \cap S |-> f[x]]

EmptyMap == [x \in {} |-> 0]

Range(s) == {s[i] : i \in DOMAIN s}

\* All sequences over S of length 0..n.
SeqsUpTo(S, n) == UNION {[1..k -> S] : k \in 0..n}

\* All orderings of the finite set S, as sequences without repetition.
Perms(S) == {p \in [1..Cardinality(S) -> S] : Range(p) = S}

RECURSIVE BitOr(_, _)
BitOr(a, b) ==
  IF a = 0 THEN b
  ELSE IF b = 0 THEN a
  ELSE (IF (a % 2 = 1) \/ (b % 2 = 1) THEN 1 ELSE 0) + 2 * BitOr(a \div 2, b \div 2)

HexDigit(d) ==
  CASE d = 0 -> "0" [] d = 1 -> "1" [] d = 2 -> "2" [] d = 3 -> "3"
    [] d = 4 -> "4" [] d = 5 -> "5" [] d = 6 -> "6" [] d = 7 -> "7"
    [] d = 8 -> "8" [] d = 9 -> "9" [] d = 10 -> "A" [] d = 11 -> "B"
    [] d = 12 -> "C" [] d = 13 -> "D" [] d = 14 -> "E" [] d = 15 -> "F"

\* format(n, "0<w>X"): upper-case hex, zero-padded to at least w digits.
RECURSIVE HexStr(_, _)
HexStr(n, w) ==
  IF n < 16 /\ w <= 1 THEN HexDigit(n)
  ELSE HexStr(n \div 16, w - 1) \o HexDigit(n % 16)

\* ------------------------------------------------------------------- cmap
\* A subtable: [platformID, platEncID, format, language, cmap].
Subtable(p, e, f, m) ==
  [platformID |-> p, platEncID |-> e, format |-> f, language |-> 0, cmap |-> m]

\* get_best_cmap: first (3,10), else first (3,1), else first platform 0;
\* ok = FALSE stands for the ValueError.
IsWinFull(t) == t.platformID = 3 /\ t.platEncID = 10
IsWinBMP(t) == t.platformID = 3 /\ t.platEncID = 1
IsUniPlatform(t) == t.platformID = 0

\* Index of the first subtable among hits, 0 when a for loop finds none.
FirstMatch(hits) ==
  IF hits = {} THEN 0 ELSE CHOOSE i \in hits : \A j \in hits : i <= j

\* get_best_cmap falling back to the first subtable of any platform instead of
\* raising (faulty variant of BestIndex).
BestIndexOrFirst(tables) ==
  LET hits == {i \in DOMAIN tables :
                 IsWinFull(tables[i]) \/ IsWinBMP(tables[i]) \/ IsUniPlatform(tables[i])}
  IN IF hits # {} THEN FirstMatch(hits) ELSE FirstMatch(DOMAIN tables)

\* get_best_cmap trying the Windows BMP rule before the Windows full-Unicode
\* rule (faulty variant of BestIndex).
BestIndexBmpFirst(tables) ==
  LET full == FirstMatch({i \in DOMAIN tables : IsWinFull(tables[i])})
      bmp == FirstMatch({i \in DOMAIN tables : IsWinBMP(tables[i])})
      uni == FirstMatch({i \in DOMAIN tables : IsUniPlatform(tables[i])})
  IN IF bmp # 0 THEN bmp ELSE IF full # 0 THEN full ELSE uni

BestIndex(tables) ==
  LET full == FirstMatch({i \in DOMAIN tables : IsWinFull(tables[i])})
      bmp == FirstMatch({i \in DOMAIN tables : IsWinBMP(tables[i])})
      uni == FirstMatch({i \in DOMAIN tables : IsUniPlatform(tables[i])})
  IN IF full # 0 THEN full ELSE IF bmp # 0 THEN bmp ELSE uni

\* The result's alias is the index of the subtable whose dict object the caller
\* holds, 0 for an object of its own: every return is dict(subtable.cmap).
get_best_cmap(font) ==
  LET i == BestIndex(font.cmap)
  IN IF i = 0 THEN [ok |-> FALSE, cmap |-> EmptyMap, alias |-> 0]
     ELSE [ok |-> TRUE, cmap |-> font.cmap[i].cmap, alias |-> 0]

\* ensure_cmap_subtables, after get_best_cmap succeeded with `best`.
AddFormat4(tables, best) ==
  IF \E i \in DOMAIN tables : tables[i].format = 4 THEN tables
  ELSE Append(tables, Subtable(3, 1, 4, Restrict(best, {k \in DOMAIN best : k <= BMPMax})))

AddFormat12(tables, had12, best) ==
  IF had12 THEN tables ELSE Append(tables, Subtable(3, 10, 12, best))

ensure_cmap_subtables(font, best) ==
  LET has_format12 == \E i \in DOMAIN font.cmap : font.cmap[i].format = 12
  IN [font EXCEPT !.cmap = AddFormat12(AddFormat4(font.cmap, best), has_format12, best)]

\* update_cmap without the BMP test on the narrow formats (faulty variant of CmapWrites).
CmapWritesNoRangeCheck(t, codepoint) ==
  /\ t.platformID \in {0, 3}
  /\ t.format \in {4, 6, 12, 13}

\* update_cmap: the branch taken for one subtable.
CmapWrites(t, codepoint) ==
  LET bmp == codepoint <= BMPMax
      fmt == t.format
  IN IF t.platformID \notin {0, 3} THEN FALSE
     ELSE IF bmp /\ fmt \in {4, 6} THEN TRUE
     ELSE IF fmt \in {12, 13} THEN TRUE
     ELSE t.platformID = 0 /\ fmt \in {3, 4} /\ bmp

update_cmap(tables, codepoint, glyph_name) ==
  [i \in DOMAIN tables |->
     IF CmapWrites(tables[i], codepoint)
     THEN [tables[i] EXCEPT !.cmap = Put(@, codepoint, glyph_name)]
     ELSE tables[i]]

glyph_name_for_codepoint(codepoint, prefix) ==
  IF codepoint <= BMPMax THEN prefix \o "uni" \o HexStr(codepoint, 4)
  ELSE prefix \o "u" \o HexStr(codepoint, 6)

ComponentName(comp_src) == "_ens_" \o comp_src

\* ------------------------------------------------------------------ glyphs
\* A glyph: [components, contours, yMax]; components = << >> for a simple or
\* empty glyph.  hmtx and vmtx entries are pairs <<advance, side bearing>>.
Glyph(comps, n, y) == [components |-> comps, contours |-> n, yMax |-> y]

\* copy_glyph without the test of line 111 (faulty variant of AlreadyCopied).
NeverCopied(dst, dst_name) == FALSE

\* copy_glyph line 111: the destination name is already in the outline table.
AlreadyCopied(dst, dst_name) == dst_name \in DOMAIN dst.glyf

\* copy_glyph without line 123: the copy keeps the donor's component names
\* (faulty variant of RenameComponents).
KeepComponents(g) == g

\* copy_glyph lines 118-123: the deep copy with every component renamed.
RenameComponents(g) ==
  [g EXCEPT !.components = [i \in DOMAIN g.components |-> ComponentName(g.components[i])]]

\* copy_glyph line 125, dst_glyf[dst_name] = ...: item assignment of the
\* outline table is the font library's code.  It stores the glyph; whether it
\* also appends a name the glyph order lacks to that order is the library's
\* to decide (dst.appends).
SetGlyph(dst, dst_name, g) ==
  [dst EXCEPT !.glyf = Put(@, dst_name, g),
              !.order = IF dst.appends /\ dst_name \notin Range(@)
                        THEN Append(@, dst_name) ELSE @,
              !.copies = Put(@, dst_name,
                             IF dst_name \in DOMAIN @ THEN @[dst_name] + 1 ELSE 1)]

\* copy_glyph storing the outline and leaving hmtx alone (faulty variant of StoreGlyph).
StoreGlyphNoMetrics(src, dst, src_name, dst_name, g) ==
  [SetGlyph(dst, dst_name, g) EXCEPT !.ok = TRUE]

\* copy_glyph lines 125-126: the outline is stored first, then the metrics;
\* a donor glyph without an hmtx entry raises KeyError after the outline is in.
StoreGlyph(src, dst, src_name, dst_name, g) ==
  LET withGlyf == SetGlyph(dst, dst_name, g)
  IN IF src_name \in DOMAIN src.hmtx
     THEN [withGlyf EXCEPT !.hmtx = Put(@, dst_name, src.hmtx[src_name]), !.ok = TRUE]
     ELSE [withGlyf EXCEPT !.ok = FALSE]

\* copy_glyph without line 118: the component references are renamed on the
\* donor's own glyph object (faulty variant of DonorGlyfAfterRename).
DonorGlyfRenamedInPlace(donor_glyf, src_name, renamed) == Put(donor_glyf, src_name, renamed)

\* copy_glyph lines 118-123: src_glyph is rebound to a deep copy before the
\* loop assigns component.glyphName, so the donor's outline table is not
\* written.
DonorGlyfAfterRename(donor_glyf, src_name, renamed) == donor_glyf

\* copy_glyph(src_font, dst_font, src_name, dst_name) on dst = [glyf, hmtx,
\* order, appends, lib, copies, ok, donor_glyf]; the result's ok = FALSE stands for
\* a raised exception, and the result then holds whatever had been written
\* before the raise.  donor_glyf is the donor's outline table as the calls
\* leave it.
\* The code has no bound on the nesting of its calls; the interpreter has:
\* it raises RecursionError for the call that would make the whole stack
\* deeper than RecursionLimit.  stack is the set of the source names of the
\* enclosing copy_glyph frames, one name per frame, so this call's frame is
\* number CallerFrames + Cardinality(stack) + 1 of the stack.  A frame that
\* returns at line 111 calls nothing; every other frame calls the library
\* for its source glyph (lines 113, 118, 125), dst.lib[src_name] frames deep,
\* before it stores anything.  dst.lib gives the depth per source glyph, so a
\* simple glyph and a composite, or two composites, need not nest alike.
\* A call that gets as far as recursing for a source name an enclosing frame
\* is still copying repeats that frame's calls without end (nothing of the
\* cycle is stored before its calls return), so the nesting grows until
\* RecursionError.
LibraryDepth(dst, src_name) ==
  IF src_name \in DOMAIN dst.lib THEN dst.lib[src_name] ELSE 0

RECURSIVE copy_glyph(_, _, _, _, _)
RECURSIVE copy_components(_, _, _, _, _)
copy_components(src, dst, comps, i, stack) ==
  IF i > Len(comps) THEN [dst EXCEPT !.ok = TRUE]
  ELSE LET r == copy_glyph(src, dst, comps[i], ComponentName(comps[i]), stack)
       IN IF r.ok THEN copy_components(src, r, comps, i + 1, stack) ELSE r

copy_glyph(src, dst, src_name, dst_name, stack) ==
  IF CallerFrames + Cardinality(stack) + 1 > RecursionLimit
  THEN [dst EXCEPT !.ok = FALSE]
  ELSE IF AlreadyCopied(dst, dst_name) THEN [dst EXCEPT !.ok = TRUE]
  ELSE IF CallerFrames + Cardinality(stack) + 1 + LibraryDepth(dst, src_name)
            > RecursionLimit
  THEN [dst EXCEPT !.ok = FALSE]
  ELSE IF src_name \notin DOMAIN src.glyf THEN [dst EXCEPT !.ok = FALSE]
  ELSE LET g == src.glyf[src_name]
       IN IF g.components # << >>
          THEN LET r == IF src_name \in stack THEN [dst EXCEPT !.ok = FALSE]
                        ELSE copy_components(src, dst, g.components, 1,
                                             stack \cup {src_name})
               IN IF r.ok
                  THEN StoreGlyph(src,
                                  [r EXCEPT !.donor_glyf =
                                     DonorGlyfAfterRename(@, src_name, RenameComponents(g))],
                                  src_name, dst_name, RenameComponents(g))
                  ELSE r
          ELSE StoreGlyph(src, dst, src_name, dst_name, g)

\* One iteration of the loop of transplant_glyphs (lines 181-188) on the font.
\* Returns the font, the donor, and whether the codepoint was counted.
TransplantOne(src, font, ghost, cp, src_glyph_name, prefix, appends, lib) ==
  LET dst_glyph_name == glyph_name_for_codepoint(cp, prefix)
      r == copy_glyph(src, [glyf |-> font.glyf, hmtx |-> font.hmtx,
                            order |-> font.order, appends |-> appends, lib |-> lib,
                            copies |-> ghost, ok |-> TRUE, donor_glyf |-> src.glyf],
                      src_glyph_name, dst_glyph_name, {})
      copied == [font EXCEPT !.glyf = r.glyf, !.hmtx = r.hmtx, !.order = r.order]
  IN [ok |-> r.ok,
      copies |-> r.copies,
      donor |-> [src EXCEPT !.glyf = r.donor_glyf],
      font |-> IF r.ok
               THEN [copied EXCEPT !.cmap = update_cmap(@, cp, dst_glyph_name)]
               ELSE copied]

\* fix_glyph_order finding no name to add (faulty variant of NewGlyphs).
NewGlyphsNone(font) == {}

\* fix_glyph_order: the names of the outline table missing from the order.
NewGlyphs(font) == DOMAIN font.glyf \ Range(font.order)

\* ------------------------------------------------------------- units per em
\* otRound(v * new / old), the rounding scale_upem applies to every value.
ScaleVal(v, new, old) == (2 * v * new + old) \div (2 * old)

scale_upem(font, new) ==
  LET old == font.upm
      S(v) == ScaleVal(v, new, old)
  IN [font EXCEPT
        !.upm = new,
        !.glyf = [n \in DOMAIN @ |-> [@[n] EXCEPT !.yMax = S(@)]],
        !.hmtx = [n \in DOMAIN @ |-> <<S(@[n][1]), S(@[n][2])>>],
        !.os2 = [@ EXCEPT !.sTypoAscender = S(@), !.sTypoDescender = S(@),
                          !.sTypoLineGap = S(@), !.usWinAscent = S(@),
                          !.usWinDescent = S(@), !.sxHeight = S(@),
                          !.sCapHeight = S(@)],
        !.hhea = [@ EXCEPT !.ascent = S(@), !.descent = S(@), !.lineGap = S(@)]]

\* ---------------------------------------------------------------- metrics
set_os2_metrics(font, meslo_ref) ==
  LET ref_os2 == meslo_ref.os2
      ref_hhea == meslo_ref.hhea
  IN [font EXCEPT
        !.os2 = [@ EXCEPT
                   !.sTypoAscender = ref_os2.sTypoAscender,
                   !.sTypoDescender = ref_os2.sTypoDescender,
                   !.sTypoLineGap = ref_os2.sTypoLineGap,
                   !.usWinAscent = ref_os2.usWinAscent,
                   !.usWinDescent = ref_os2.usWinDescent,
                   !.fsSelection = BitOr(@, UseTypoMetrics),
                   !.fsType = 0,
                   !.sxHeight = ref_os2.sxHeight,
                   !.sCapHeight = ref_os2.sCapHeight,
                   !.ulUnicodeRange1 = BitOr(ref_os2.ulUnicodeRange1, @),
                   !.ulUnicodeRange2 = BitOr(ref_os2.ulUnicodeRange2, @),
                   !.ulUnicodeRange3 = BitOr(ref_os2.ulUnicodeRange3, @),
                   !.ulUnicodeRange4 = BitOr(ref_os2.ulUnicodeRange4, @)],
        !.hhea = [@ EXCEPT !.ascent = ref_hhea.ascent,
                           !.descent = ref_hhea.descent,
                           !.lineGap = ref_hhea.lineGap]]

\* validate_monospace_integrity: the advance widths of the mapped ASCII glyphs.
AsciiWidths(font, cmap) ==
  {font.hmtx[cmap[cp]][1] :
     cp \in {c \in DOMAIN cmap : c \in AsciiLo..AsciiHi /\ cmap[c] \in DOMAIN font.hmtx}}

MonospaceVerdict(widths) ==
  IF Cardinality(widths) > 1 THEN "violation"
  ELSE IF Cardinality(widths) = 1 THEN "ok"
  ELSE "not_verifiable"

\* ------------------------------------------------------- vertical metrics
SetMax(S) == CHOOSE m \in S : \A x \in S : x <= m

\* What recalcBounds computes: [ok, yMax].  yMax of a simple glyph is the top
\* of its own outline; a composite takes its bounds from its components, and
\* an unresolved component raises.
RECURSIVE Bounds(_, _, _)
Bounds(glyf, name, fuel) ==
  IF fuel = 0 \/ name \notin DOMAIN glyf THEN [ok |-> FALSE, yMax |-> 0]
  ELSE LET g == glyf[name]
       IN IF g.components = << >> THEN [ok |-> TRUE, yMax |-> g.yMax]
          ELSE LET parts == {Bounds(glyf, c, fuel - 1) : c \in Range(g.components)}
               IN IF \E b \in parts : ~b.ok THEN [ok |-> FALSE, yMax |-> 0]
                  ELSE [ok |-> TRUE, yMax |-> SetMax({b.yMax : b \in parts})]

\* rebuild_vmtx lines 446-454: the top side bearing of a glyph without an entry.
TopSideBearing(font, name) ==
  IF name \notin DOMAIN font.glyf THEN 0
  ELSE IF font.glyf[name].contours = 0 THEN 0
  ELSE LET b == Bounds(font.glyf, name, Cardinality(DOMAIN font.glyf))
       IN IF b.ok THEN font.vhea.ascent - b.yMax ELSE 0

\* rebuild_vmtx line 450: g.recalcBounds writes the bounds it computes into
\* the font's own glyph object, for each of the given names whose glyph has
\* contours or components and whose bounds can be computed.  The bounds of a
\* composite come from the outlines of its components, never from what a glyph
\* has stored, so the order of the writes makes no difference.
RecalcBounds(font, names) ==
  [n \in DOMAIN font.glyf |->
     IF /\ n \in names
        /\ font.glyf[n].contours # 0
        /\ Bounds(font.glyf, n, Cardinality(DOMAIN font.glyf)).ok
     THEN [font.glyf[n] EXCEPT
             !.yMax = Bounds(font.glyf, n, Cardinality(DOMAIN font.glyf)).yMax]
     ELSE font.glyf[n]]

\* rebuild_vmtx without the test of line 442: every glyph of the order gets a
\* computed entry (faulty variant of rebuild_vmtx).
rebuild_vmtx_overwrite(font) ==
  [font EXCEPT
     !.glyf = RecalcBounds(font, Range(font.order)),
     !.vmtx = [n \in DOMAIN @ \cup Range(font.order) |->
                 IF n \in Range(font.order)
                 THEN <<font.vhea.advanceHeightMax, TopSideBearing(font, n)>>
                 ELSE @[n]],
     !.vhea = [@ EXCEPT !.numberOfVMetrics = Len(font.order)]]

rebuild_vmtx(font) ==
  [font EXCEPT
     !.glyf = RecalcBounds(font, Range(font.order) \ DOMAIN font.vmtx),
     !.vmtx = [n \in DOMAIN @ \cup Range(font.order) |->
                 IF n \in DOMAIN @ THEN @[n]
                 ELSE <<font.vhea.advanceHeightMax, TopSideBearing(font, n)>>],
     !.vhea = [@ EXCEPT !.numberOfVMetrics = Len(font.order)]]

\* ----------------------------------------------------------- naming table
\* The style label is the list of its words: "Bold Italic" is <<"Bold", "Italic">>.
RECURSIVE Join(_, _)
Join(words, sep) ==
  IF Len(words) = 0 THEN ""
  ELSE IF Len(words) = 1 THEN words[1]
  ELSE words[1] \o sep \o Join(Tail(words), sep)

\* set_font_metadata lines 291-307: (name id, value) in the order written.
NameEntries(style, version, lxgw_ver, nerd_ver) ==
  LET style_str == Join(style, " ")
      ps_name == "ENSFont-" \o Join(style, "")
      version_str == "Version " \o version \o "; lxgw" \o lxgw_ver \o "; nerd" \o nerd_ver
  IN << <<0, "copyright_notice">>, <<1, "ENS Font">>, <<2, style_str>>,
        <<3, version_str \o "; " \o ps_name>>, <<4, "ENS Font " \o style_str>>,
        <<5, version_str>>, <<6, ps_name>>, <<8, "enstw">>,
        <<11, "https://ens.tw/font">>, <<13, "license_text">>,
        <<14, "https://openfontlicense.org">>, <<19, "sample_text">> >>

\* lines 316-320: zh-TW (Windows), en-US (Windows), Traditional Chinese (Mac).
NameTriples == << <<3, 1, 1028>>, <<3, 1, 1033>>, <<1, 0, 19>> >>

NameRecord(name_id, triple, value) ==
  [nameID |-> name_id, platformID |-> triple[1], platEncID |-> triple[2],
   langID |-> triple[3],
   string |-> [encoding |-> IF triple[1] = 3 THEN "utf-16-be" ELSE "mac_roman",
               text |-> value]]

\* set_font_metadata without line 311: nothing is cleared before the records
\* are appended (faulty variant of set_font_metadata).
set_font_metadata_no_clear(font, style, version, lxgw_ver, nerd_ver) ==
  LET entries == NameEntries(style, version, lxgw_ver, nerd_ver)
      n3 == Len(NameTriples)
      added == [k \in 1..(Len(entries) * n3) |->
                  NameRecord(entries[((k - 1) \div n3) + 1][1],
                             NameTriples[((k - 1) % n3) + 1],
                             entries[((k - 1) \div n3) + 1][2])]
  IN [font EXCEPT !.names = @ \o added]

set_font_metadata(font, style, version, lxgw_ver, nerd_ver) ==
  LET entries == NameEntries(style, version, lxgw_ver, nerd_ver)
      ids_to_clear == {entries[i][1] : i \in DOMAIN entries}
      Kept(n) == n.nameID \notin ids_to_clear
      n3 == Len(NameTriples)
      added == [k \in 1..(Len(entries) * n3) |->
                  NameRecord(entries[((k - 1) \div n3) + 1][1],
                             NameTriples[((k - 1) % n3) + 1],
                             entries[((k - 1) \div n3) + 1][2])]
  IN [font EXCEPT !.names = SelectSeq(@, Kept) \o added]

\* ------------------------------------------------------------ input fonts
BaseNames == {".notdef", "cjk_zhong", "cjk_A", "cjk_ext"}
DonorNames == {"A", "B", "C"}

\* (platformID, platEncID, format) of the subtables the input fonts carry.
Kinds ==
  { <<3, 10, 12>>, <<3, 1, 4>>, <<0, 3, 4>>, <<0, 4, 12>>,
    <<1, 0, 6>>, <<1, 0, 12>>, <<3, 0, 4>> }

IsWide(fmt) == fmt \in {12, 13}

\* Subtables of the given kinds over one mapping: a wide subtable holds all of
\* it, a narrow one its BMP part.
MakeTables(kinds, map) ==
  [i \in DOMAIN kinds |->
     Subtable(kinds[i][1], kinds[i][2], kinds[i][3],
              IF IsWide(kinds[i][3]) THEN map
              ELSE Restrict(map, {k \in DOMAIN map : k <= BMPMax}))]

TableLists == SeqsUpTo(Kinds, MaxTables)
StdKinds == << <<3, 1, 4>>, <<3, 10, 12>> >>

BaseMaps ==
  { (cpZhong :> "cjk_zhong"),
    (cpZhong :> "cjk_zhong") @@ (cpA :> "cjk_A"),
    (cpZhong :> "cjk_zhong") @@ (cpExt :> "cjk_ext") }

Os2(ta, td, wa, wd) ==
  [sTypoAscender |-> ta, sTypoDescender |-> td, sTypoLineGap |-> 0,
   usWinAscent |-> wa, usWinDescent |-> wd, fsSelection |-> 64, fsType |-> 8,
   sxHeight |-> 500, sCapHeight |-> 700,
   ulUnicodeRange1 |-> 1, ulUnicodeRange2 |-> 0,
   ulUnicodeRange3 |-> 0, ulUnicodeRange4 |-> 0]

Hhea(a, d) == [ascent |-> a, descent |-> d, lineGap |-> 0]

\* A base whose outline table, hmtx, vmtx and glyph order hold the names of
\* BaseNames and the further ones of extra.
BaseFontWith(tables, has_vmtx, has_vhea, extra) ==
  [upm |-> 1000,
   cmap |-> tables,
   glyf |-> [n \in BaseNames \cup Range(extra) |-> Glyph(<< >>, 1, 800)],
   hmtx |-> [n \in BaseNames \cup Range(extra) |-> <<1000, 0>>],
   order |-> <<".notdef", "cjk_zhong", "cjk_A", "cjk_ext">> \o extra,
   has_vmtx |-> has_vmtx,
   vmtx |-> IF has_vmtx
            THEN [n \in BaseNames \cup Range(extra) |->
                    IF n = ".notdef" THEN <<500, 0>> ELSE <<1000, 80>>]
            ELSE EmptyMap,
   has_vhea |-> has_vhea,
   vhea |-> [advanceHeightMax |-> 1000, ascent |-> 880, numberOfVMetrics |-> 1],
   os2 |-> [Os2(928, -256, 928, 256) EXCEPT !.ulUnicodeRange2 = 2],
   hhea |-> Hhea(928, -256),
   names |-> << NameRecord(1, <<3, 1, 1033>>, "LXGW WenKai Mono"),
                NameRecord(16, <<3, 1, 1033>>, "LXGW WenKai Mono"),
                NameRecord(4, <<1, 0, 0>>, "LXGW WenKai Mono Regular"),
                NameRecord(7, <<3, 1, 1033>>, "trademark") >>,
   post |-> [formatType |-> 2]]

BaseFont(tables, has_vmtx, has_vhea) == BaseFontWith(tables, has_vmtx, has_vhea, << >>)

DonorFont(upm, tables, glyf, hmtx, os2, hhea) ==
  [upm |-> upm, cmap |-> tables, glyf |-> glyf, hmtx |-> hmtx,
   os2 |-> os2, hhea |-> hhea]

SimpleGlyf == [n \in DonorNames |-> Glyph(<< >>, 1, 1536)]
FullHmtx == ("A" :> <<1229, 100>>) @@ ("B" :> <<1229, 120>>) @@ ("C" :> <<2458, 0>>)
DefaultOs2 == Os2(1900, -500, 1900, 500)
DefaultHhea == Hhea(1900, -500)

\* Donor mappings: U+0041 also occurs in a base mapping, U+F0001 lies above
\* the BMP.
DonorMaps ==
  { (cpA :> "A") @@ (cpB :> "B") @@ (cpIcon :> "C"),
    (cpIcon :> "C") }
GraphMap == (cpA :> "B") @@ (cpB :> "C")

\* Donor outline tables: A is a leaf, B and C are simple or composite, and at
\* most one glyph is missing from the outline table or from hmtx.  A composite
\* carries stored bounds that are out of date: its components reach higher.
Defects == {<<"none", "A">>} \cup ({"noglyf", "nohmtx"} \X DonorNames)

GraphGlyf(compsB, compsC, defect) ==
  LET full == ("A" :> Glyph(<< >>, 1, 1536))
              @@ ("B" :> IF compsB = << >> THEN Glyph(<< >>, 1, 1536)
                         ELSE Glyph(compsB, -1, 1400))
              @@ ("C" :> IF compsC = << >> THEN Glyph(<< >>, 1, 1536)
                         ELSE Glyph(compsC, -1, 1400))
  IN IF defect[1] = "noglyf" THEN Restrict(full, DonorNames \ {defect[2]}) ELSE full

GraphHmtx(defect) ==
  IF defect[1] = "nohmtx" THEN Restrict(FullHmtx, DonorNames \ {defect[2]}) ELSE FullHmtx

Input(b, d, avail, style) ==
  [base |-> b, donor |-> d, scaleAvailable |-> avail, style |-> style]

\* Family 1: every list of base subtables, against a standard donor.
CmapInputs ==
  { Input(BaseFont(MakeTables(ks, bm), TRUE, TRUE),
          DonorFont(1000, MakeTables(StdKinds, dm), SimpleGlyf, FullHmtx,
                    DefaultOs2, DefaultHhea),
          TRUE, <<"Regular">>) :
      ks \in TableLists, bm \in BaseMaps, dm \in DonorMaps }

\* Family 2: every list of donor subtables, against a standard base.
DonorCmapInputs ==
  { Input(BaseFont(MakeTables(StdKinds, (cpZhong :> "cjk_zhong")), TRUE, TRUE),
          DonorFont(1000, MakeTables(ks, dm), SimpleGlyf, FullHmtx,
                    DefaultOs2, DefaultHhea),
          TRUE, <<"Regular">>) :
      ks \in TableLists, dm \in DonorMaps }

\* Family 3: the donor's component graphs, on a grid that needs rescaling.
GraphInputs ==
  { Input(BaseFont(MakeTables(StdKinds, (cpZhong :> "cjk_zhong")), TRUE, TRUE),
          DonorFont(2048, MakeTables(StdKinds, GraphMap),
                    GraphGlyf(cb, cc, df), GraphHmtx(df), DefaultOs2, DefaultHhea),
          TRUE, <<"Bold">>) :
      cb \in SeqsUpTo(DonorNames, MaxComponents),
      cc \in SeqsUpTo(DonorNames, MaxComponents),
      df \in Defects }

\* Family 4: the donor's metrics, both grids, with and without vertical tables.
MetricInputs ==
  { Input(BaseFont(MakeTables(StdKinds, (cpZhong :> "cjk_zhong")), v[1], v[2]),
          DonorFont(u[1], MakeTables(StdKinds, (cpA :> "A") @@ (cpB :> "B")),
                    SimpleGlyf, FullHmtx,
                    Os2(m[1], m[2], m[3], m[4]), Hhea(m[5], m[6])),
          u[2], <<"Bold", "Italic">>) :
      m \in {1900, 2000} \X {-500, -600} \X {1900, 2000} \X {500, 600}
            \X {1900, 2000} \X {-500, -600},
      u \in {<<1000, TRUE>>, <<2048, TRUE>>, <<2048, FALSE>>},
      v \in {<<TRUE, TRUE>>, <<FALSE, FALSE>>, <<TRUE, FALSE>>, <<FALSE, TRUE>>} }

\* Family 5: a base that already holds a glyph, mapped by no subtable, under
\* the name the transplant generates for U+0041, which the donor maps to a
\* simple glyph.
ClashInputs ==
  { Input(BaseFontWith(MakeTables(StdKinds, (cpZhong :> "cjk_zhong")), v, v,
                       <<"mes_uni0041">>),
          DonorFont(1000, MakeTables(StdKinds, GraphMap),
                    GraphGlyf(<< >>, cc, <<"none", "A">>), FullHmtx,
                    DefaultOs2, DefaultHhea),
          TRUE, <<"Regular">>) :
      cc \in {<< >>, <<"A">>},
      v \in BOOLEAN }

Inputs ==
  CmapInputs \cup DonorCmapInputs \cup GraphInputs \cup MetricInputs \cup ClashInputs

\* ------------------------------------------------------------------ state
VARIABLES
  base,            \* the base TTFont, mutated in place by the stages
  donor,           \* the donor TTFont (meslo)
  base0,           \* the base as loaded
  scaleAvailable,  \* whether fontTools.ttLib.scaleUpem can be imported
  style,           \* the --style argument, as its words
  pc,              \* position in merge_fonts
  src_cmap,        \* transplant_glyphs: the donor's resolved cmap
  todo,            \* transplant_glyphs: codepoints the loop has not reached
  count,           \* transplant_glyphs: glyphs transplanted
  failed,          \* codepoints whose iteration ended in the except branch
  copies,          \* per glyph name, how often copy_glyph stored an outline
  trace,           \* the stages run so far, in order
  verdict,         \* what validate_monospace_integrity logged
  output,          \* << >>, or <<font>> once base.save has written it
  ref,             \* the base of a run whose donor cmap lacks the failed codepoints
  vpc,             \* check_versions: position in main
  venv,            \* check_versions: arguments, environment and what GitHub answers
  versions_file,   \* check_versions: the versions file on disk
  versions,        \* check_versions: the dict loaded from the file
  changed,         \* check_versions: the flag of main
  gha_output,      \* check_versions: what set_gha_output has written to the file
                   \* GITHUB_OUTPUT names and what it has printed
  exit_code,       \* check_versions: the exit status of the process, -1 while it runs
  npc,             \* build_release_notes: position in main
  nargs,           \* build_release_notes: arguments and what GitHub answers
  lxgw_changed,    \* build_release_notes: parse_bool(args.lxgw_changed)
  nerd_changed,    \* build_release_notes: parse_bool(args.nerd_changed)
  lxgw_body,       \* build_release_notes: the changelog fetched for LXGW WenKai
  nerd_body,       \* build_release_notes: the changelog fetched for Nerd Fonts
  notes_file       \* build_release_notes: << >>, or <<notes>> once written

mergeVars == <<base, donor, base0, scaleAvailable, style, pc, src_cmap, todo, count,
               failed, copies, trace, verdict, output, ref>>

versionVars == <<vpc, venv, versions_file, versions, changed, gha_output, exit_code>>

noteVars == <<npc, nargs, lxgw_changed, nerd_changed, lxgw_body, nerd_body, notes_file>>

vars == <<mergeVars, versionVars, noteVars>>

Prefix == "mes_"

\* merge_fonts is entered with the two fonts loaded.
MergeInit(in, start) ==
  /\ base = in.base
  /\ donor = in.donor
  /\ base0 = in.base
  /\ scaleAvailable = in.scaleAvailable
  /\ style = in.style
  /\ pc = start
  /\ src_cmap = EmptyMap
  /\ todo = {}
  /\ count = 0
  /\ failed = {}
  /\ copies = EmptyMap
  /\ trace = << >>
  /\ verdict = ""
  /\ output = << >>
  /\ ref = in.base

\* check_versions.py is not running.
VersionsIdle ==
  /\ vpc = "idle"
  /\ venv = EmptyMap
  /\ versions_file = EmptyMap
  /\ versions = EmptyMap
  /\ changed = FALSE
  /\ gha_output = [file |-> << >>, stdout |-> << >>]
  /\ exit_code = -1

\* build_release_notes.py is not running.
NotesIdle ==
  /\ npc = "idle"
  /\ nargs = EmptyMap
  /\ lxgw_changed = FALSE
  /\ nerd_changed = FALSE
  /\ lxgw_body = << >>
  /\ nerd_body = << >>
  /\ notes_file = << >>

Init ==
  /\ \E in \in Inputs : MergeInit(in, "upm")
  /\ VersionsIdle
  /\ NotesIdle

\* Step 0, check_upm_compatibility.
CheckUpm ==
  /\ pc = "upm"
  /\ \/ /\ base.upm = donor.upm
        /\ pc' = "ensure"
        /\ trace' = Append(trace, "upm")
        /\ UNCHANGED donor
     \/ /\ base.upm # donor.upm
        /\ scaleAvailable
        /\ donor' = scale_upem(donor, base.upm)
        /\ pc' = "ensure"
        /\ trace' = Append(trace, "upm")
     \/ /\ base.upm # donor.upm
        /\ ~scaleAvailable
        /\ pc' = "exit"
        /\ UNCHANGED <<donor, trace>>
  /\ UNCHANGED <<base, base0, scaleAvailable, style, src_cmap, todo, count,
                 failed, copies, verdict, output, ref>>
  /\ UNCHANGED <<versionVars, noteVars>>

\* Step 1, ensure_cmap_subtables; get_best_cmap raises on a base without a
\* usable subtable.
EnsureCmap ==
  /\ pc = "ensure"
  /\ LET best == get_best_cmap(base)
     IN \/ /\ best.ok
           /\ base' = ensure_cmap_subtables(base, best.cmap)
           /\ ref' = base'
           /\ pc' = "transplant"
           /\ trace' = Append(trace, "cmap")
        \/ /\ ~best.ok
           /\ pc' = "raised"
           /\ UNCHANGED <<base, ref, trace>>
  /\ UNCHANGED <<donor, base0, scaleAvailable, style, src_cmap, todo, count,
                 failed, copies, verdict, output>>
  /\ UNCHANGED <<versionVars, noteVars>>

\* Step 2, transplant_glyphs lines 178-179.
TransplantBegin ==
  /\ pc = "transplant"
  /\ LET best == get_best_cmap(donor)
     IN \/ /\ best.ok
           /\ src_cmap' = best.cmap
           /\ todo' = DOMAIN best.cmap
           /\ count' = 0
           /\ pc' = "loop"
           /\ trace' = Append(trace, "transplant")
        \/ /\ ~best.ok
           /\ pc' = "raised"
           /\ UNCHANGED <<src_cmap, todo, count, trace>>
  /\ UNCHANGED <<base, donor, base0, scaleAvailable, style, failed, copies,
                 verdict, output, ref>>
  /\ UNCHANGED <<versionVars, noteVars>>

\* What the outline table's item assignment can be doing in this run, the
\* library being the same from the first iteration to the last: appending new
\* names to the glyph order, unless an earlier assignment has left a name out
\* of it; or not, unless an earlier assignment has extended it.
SetItemAppends(font, loaded) ==
  {a \in BOOLEAN : /\ a => DOMAIN font.glyf \subseteq Range(font.order)
                   /\ ~a => font.order = loaded.order}

\* The depths the library calls of a copy_glyph frame can have, per source
\* glyph.  Without a repeated source name the copy_glyph frames are at most
\* one more than the donor has glyphs; where that many frames fit under the
\* limit with the deepest library calls on top, the depths make no difference
\* to any copy and one assignment stands for all.
LibraryFrames(src) ==
  IF CallerFrames + Cardinality(DOMAIN src.glyf) + 1 + MaxLibraryFrames
       <= RecursionLimit
  THEN {[n \in DOMAIN src.glyf |-> MaxLibraryFrames]}
  ELSE [DOMAIN src.glyf -> 0..MaxLibraryFrames]

\* One iteration of the loop of transplant_glyphs.  The loop follows the
\* insertion order of the donor's cmap dict, which is the donor's to choose;
\* whether the outline table's item assignment appends to the glyph order,
\* and how deep the library's calls nest, is the font library's.
TransplantStep ==
  /\ pc = "loop"
  /\ \E cp \in todo, appends \in SetItemAppends(base, base0),
        lib \in LibraryFrames(donor) :
       LET r == TransplantOne(donor, base, copies, cp, src_cmap[cp], Prefix,
                              appends, lib)
       IN /\ base' = r.font
          /\ donor' = r.donor
          /\ copies' = r.copies
          /\ todo' = todo \ {cp}
          /\ \/ /\ r.ok
                /\ count' = count + 1
                /\ ref' = TransplantOne(donor, ref, EmptyMap, cp, src_cmap[cp], Prefix,
                                            appends, lib).font
                /\ UNCHANGED failed
             \/ /\ ~r.ok
                /\ failed' = failed \cup {cp}
                /\ UNCHANGED <<count, ref>>
  /\ UNCHANGED <<base0, scaleAvailable, style, pc, src_cmap, trace,
                 verdict, output>>
  /\ UNCHANGED <<versionVars, noteVars>>

\* transplant_glyphs line 190.
TransplantEnd ==
  /\ pc = "loop"
  /\ todo = {}
  /\ pc' = "order"
  /\ UNCHANGED <<base, donor, base0, scaleAvailable, style, src_cmap, todo, count,
                 failed, copies, trace, verdict, output, ref>>
  /\ UNCHANGED <<versionVars, noteVars>>

\* Step 4, fix_glyph_order: new_glyphs is built by iterating a set of strings,
\* whose order the interpreter's hash seed decides.
FixGlyphOrder ==
  /\ pc = "order"
  /\ \E new_glyphs \in Perms(NewGlyphs(base)) :
       base' = [base EXCEPT !.order = @ \o new_glyphs]
  /\ pc' = "post"
  /\ trace' = Append(trace, "order")
  /\ UNCHANGED <<donor, base0, scaleAvailable, style, src_cmap, todo, count,
                 failed, copies, verdict, output, ref>>
  /\ UNCHANGED <<versionVars, noteVars>>

\* Step 5, post format 3.0.
SetPostFormat ==
  /\ pc = "post"
  /\ base' = [base EXCEPT !.post.formatType = 3]
  /\ pc' = "metadata"
  /\ UNCHANGED <<donor, base0, scaleAvailable, style, src_cmap, todo, count,
                 failed, copies, trace, verdict, output, ref>>
  /\ UNCHANGED <<versionVars, noteVars>>

\* Step 6, set_font_metadata.
SetFontMetadata ==
  /\ pc = "metadata"
  /\ base' = set_font_metadata(base, style, "1.0.0", "1.521", "3.4.0")
  /\ pc' = "os2"
  /\ trace' = Append(trace, "names")
  /\ UNCHANGED <<donor, base0, scaleAvailable, style, src_cmap, todo, count,
                 failed, copies, verdict, output, ref>>
  /\ UNCHANGED <<versionVars, noteVars>>

\* Step 7, set_os2_metrics.
SetOs2Metrics ==
  /\ pc = "os2"
  /\ base' = set_os2_metrics(base, donor)
  /\ pc' = "validate"
  /\ trace' = Append(trace, "metrics")
  /\ UNCHANGED <<donor, base0, scaleAvailable, style, src_cmap, todo, count,
                 failed, copies, verdict, output, ref>>
  /\ UNCHANGED <<versionVars, noteVars>>

\* merge_fonts with a validator that raises unless it found exactly one width
\* (faulty variant of Validate).
ValidateFatal ==
  /\ pc = "validate"
  /\ LET v == MonospaceVerdict(AsciiWidths(base, get_best_cmap(base).cmap))
     IN /\ verdict' = v
        /\ pc' = IF v = "ok" THEN "vmtx" ELSE "raised"
        /\ trace' = IF v = "ok" THEN Append(trace, "validate") ELSE trace
  /\ UNCHANGED <<base, donor, base0, scaleAvailable, style, src_cmap, todo, count,
                 failed, copies, output, ref>>
  /\ UNCHANGED <<versionVars, noteVars>>

\* merge_fonts going from the validation straight to the save (faulty variant
\* of Validate).
ValidateThenSave ==
  /\ pc = "validate"
  /\ verdict' = MonospaceVerdict(AsciiWidths(base, get_best_cmap(base).cmap))
  /\ pc' = "save"
  /\ trace' = Append(trace, "validate")
  /\ UNCHANGED <<base, donor, base0, scaleAvailable, style, src_cmap, todo, count,
                 failed, copies, output, ref>>
  /\ UNCHANGED <<versionVars, noteVars>>

\* Step 8, validate_monospace_integrity.
Validate ==
  /\ pc = "validate"
  /\ LET best == get_best_cmap(base)
     IN /\ verdict' = IF best.ok THEN MonospaceVerdict(AsciiWidths(base, best.cmap))
                      ELSE "raised"
        /\ pc' = IF best.ok THEN "vmtx" ELSE "raised"
        /\ trace' = IF best.ok THEN Append(trace, "validate") ELSE trace
  /\ UNCHANGED <<base, donor, base0, scaleAvailable, style, src_cmap, todo, count,
                 failed, copies, output, ref>>
  /\ UNCHANGED <<versionVars, noteVars>>

\* Step 9, rebuild_vmtx, only for a base with vmtx and vhea.
RebuildVmtx ==
  /\ pc = "vmtx"
  /\ \/ /\ base.has_vmtx /\ base.has_vhea
        /\ base' = rebuild_vmtx(base)
        /\ trace' = Append(trace, "vmtx")
     \/ /\ ~(base.has_vmtx /\ base.has_vhea)
        /\ UNCHANGED <<base, trace>>
  /\ pc' = "save"
  /\ UNCHANGED <<donor, base0, scaleAvailable, style, src_cmap, todo, count,
                 failed, copies, verdict, output, ref>>
  /\ UNCHANGED <<versionVars, noteVars>>

\* Step 10, base.save.
Save ==
  /\ pc = "save"
  /\ output' = <<base>>
  /\ pc' = "done"
  /\ trace' = Append(trace, "save")
  /\ UNCHANGED <<base, donor, base0, scaleAvailable, style, src_cmap, todo, count,
                 failed, copies, verdict, ref>>
  /\ UNCHANGED <<versionVars, noteVars>>

Next ==
  \/ CheckUpm
  \/ EnsureCmap
  \/ TransplantBegin
  \/ TransplantStep
  \/ TransplantEnd
  \/ FixGlyphOrder
  \/ SetPostFormat
  \/ SetFontMetadata
  \/ SetOs2Metrics
  \/ Validate
  \/ RebuildVmtx
  \/ Save

Spec == Init /\ [][Next]_vars

\* ======================================================== check_versions.py
\* Text the script takes apart (tags, versions) is a sequence of characters.
\* str.lstrip(c)
RECURSIVE LStrip(_, _)
LStrip(s, c) == IF s # << >> /\ s[1] = c THEN LStrip(Tail(s), c) ELSE s

\* str.replace(c, "")
Remove(s, c) ==
  LET Other(x) == x # c
  IN SelectSeq(s, Other)

\* str.split(sep)
RECURSIVE Split(_, _)
Split(s, sep) ==
  LET hits == {i \in DOMAIN s : s[i] = sep}
  IN IF hits = {} THEN <<s>>
     ELSE <<SubSeq(s, 1, FirstMatch(hits) - 1)>>
            \o Split(SubSeq(s, FirstMatch(hits) + 1, Len(s)), sep)

\* A character is a string: a printable ASCII character is written as
\* itself, the tab, line feed, form feed and carriage return as "\t", "\n",
\* "\f", "\r", and every other character as U+ and its code point in hex.
\* The decimal digits int() knows, those of every script; element d + 1 holds
\* the characters of value d.
DigitChars ==
  <<
     {
       "0", "U+0660", "U+06F0", "U+07C0", "U+0966", "U+09E6", "U+0A66",
       "U+0AE6", "U+0B66", "U+0BE6", "U+0C66", "U+0CE6", "U+0D66", "U+0DE6",
       "U+0E50", "U+0ED0", "U+0F20", "U+1040", "U+1090", "U+17E0", "U+1810",
       "U+1946", "U+19D0", "U+1A80", "U+1A90", "U+1B50", "U+1BB0", "U+1C40",
       "U+1C50", "U+A620", "U+A8D0", "U+A900", "U+A9D0", "U+A9F0", "U+AA50",
       "U+ABF0", "U+FF10", "U+104A0", "U+10D30", "U+11066", "U+110F0",
       "U+11136", "U+111D0", "U+112F0", "U+11450", "U+114D0", "U+11650",
       "U+116C0", "U+11730", "U+118E0", "U+11950", "U+11C50", "U+11D50",
       "U+11DA0", "U+16A60", "U+16AC0", "U+16B50", "U+1D7CE", "U+1D7D8",
       "U+1D7E2", "U+1D7EC", "U+1D7F6", "U+1E140", "U+1E2F0", "U+1E950",
       "U+1FBF0" },
     {
       "1", "U+0661", "U+06F1", "U+07C1", "U+0967", "U+09E7", "U+0A67",
       "U+0AE7", "U+0B67", "U+0BE7", "U+0C67", "U+0CE7", "U+0D67", "U+0DE7",
       "U+0E51", "U+0ED1", "U+0F21", "U+1041", "U+1091", "U+17E1", "U+1811",
       "U+1947", "U+19D1", "U+1A81", "U+1A91", "U+1B51", "U+1BB1", "U+1C41",
       "U+1C51", "U+A621", "U+A8D1", "U+A901", "U+A9D1", "U+A9F1", "U+AA51",
       "U+ABF1", "U+FF11", "U+104A1", "U+10D31", "U+11067", "U+110F1",
       "U+11137", "U+111D1", "U+112F1", "U+11451", "U+114D1", "U+11651",
       "U+116C1", "U+11731", "U+118E1", "U+11951", "U+11C51", "U+11D51",
       "U+11DA1", "U+16A61", "U+16AC1", "U+16B51", "U+1D7CF", "U+1D7D9",
       "U+1D7E3", "U+1D7ED", "U+1D7F7", "U+1E141", "U+1E2F1", "U+1E951",
       "U+1FBF1" },
     {
       "2", "U+0662", "U+06F2", "U+07C2", "U+0968", "U+09E8", "U+0A68",
       "U+0AE8", "U+0B68", "U+0BE8", "U+0C68", "U+0CE8", "U+0D68", "U+0DE8",
       "U+0E52", "U+0ED2", "U+0F22", "U+1042", "U+1092", "U+17E2", "U+1812",
       "U+1948", "U+19D2", "U+1A82", "U+1A92", "U+1B52", "U+1BB2", "U+1C42",
       "U+1C52", "U+A622", "U+A8D2", "U+A902", "U+A9D2", "U+A9F2", "U+AA52",
       "U+ABF2", "U+FF12", "U+104A2", "U+10D32", "U+11068", "U+110F2",
       "U+11138", "U+111D2", "U+112F2", "U+11452", "U+114D2", "U+11652",
       "U+116C2", "U+11732", "U+118E2", "U+11952", "U+11C52", "U+11D52",
       "U+11DA2", "U+16A62", "U+16AC2", "U+16B52", "U+1D7D0", "U+1D7DA",
       "U+1D7E4", "U+1D7EE", "U+1D7F8", "U+1E142", "U+1E2F2", "U+1E952",
       "U+1FBF2" },
     {
       "3", "U+0663", "U+06F3", "U+07C3", "U+0969", "U+09E9", "U+0A69",
       "U+0AE9", "U+0B69", "U+0BE9", "U+0C69", "U+0CE9", "U+0D69", "U+0DE9",
       "U+0E53", "U+0ED3", "U+0F23", "U+1043", "U+1093", "U+17E3", "U+1813",
       "U+1949", "U+19D3", "U+1A83", "U+1A93", "U+1B53", "U+1BB3", "U+1C43",
       "U+1C53", "U+A623", "U+A8D3", "U+A903", "U+A9D3", "U+A9F3", "U+AA53",
       "U+ABF3", "U+FF13", "U+104A3", "U+10D33", "U+11069", "U+110F3",
       "U+11139", "U+111D3", "U+112F3", "U+11453", "U+114D3", "U+11653",
       "U+116C3", "U+11733", "U+118E3", "U+11953", "U+11C53", "U+11D53",
       "U+11DA3", "U+16A63", "U+16AC3", "U+16B53", "U+1D7D1", "U+1D7DB",
       "U+1D7E5", "U+1D7EF", "U+1D7F9", "U+1E143", "U+1E2F3", "U+1E953",
       "U+1FBF3" },
     {
       "4", "U+0664", "U+06F4", "U+07C4", "U+096A", "U+09EA", "U+0A6A",
       "U+0AEA", "U+0B6A", "U+0BEA", "U+0C6A", "U+0CEA", "U+0D6A", "U+0DEA",
       "U+0E54", "U+0ED4", "U+0F24", "U+1044", "U+1094", "U+17E4", "U+1814",
       "U+194A", "U+19D4", "U+1A84", "U+1A94", "U+1B54", "U+1BB4", "U+1C44",
       "U+1C54", "U+A624", "U+A8D4", "U+A904", "U+A9D4", "U+A9F4", "U+AA54",
       "U+ABF4", "U+FF14", "U+104A4", "U+10D34", "U+1106A", "U+110F4",
       "U+1113A", "U+111D4", "U+112F4", "U+11454", "U+114D4", "U+11654",
       "U+116C4", "U+11734", "U+118E4", "U+11954", "U+11C54", "U+11D54",
       "U+11DA4", "U+16A64", "U+16AC4", "U+16B54", "U+1D7D2", "U+1D7DC",
       "U+1D7E6", "U+1D7F0", "U+1D7FA", "U+1E144", "U+1E2F4", "U+1E954",
       "U+1FBF4" },
     {
       "5", "U+0665", "U+06F5", "U+07C5", "U+096B", "U+09EB", "U+0A6B",
       "U+0AEB", "U+0B6B", "U+0BEB", "U+0C6B", "U+0CEB", "U+0D6B", "U+0DEB",
       "U+0E55", "U+0ED5", "U+0F25", "U+1045", "U+1095", "U+17E5", "U+1815",
       "U+194B", "U+19D5", "U+1A85", "U+1A95", "U+1B55", "U+1BB5", "U+1C45",
       "U+1C55", "U+A625", "U+A8D5", "U+A905", "U+A9D5", "U+A9F5", "U+AA55",
       "U+ABF5", "U+FF15", "U+104A5", "U+10D35", "U+1106B", "U+110F5",
       "U+1113B", "U+111D5", "U+112F5", "U+11455", "U+114D5", "U+11655",
       "U+116C5", "U+11735", "U+118E5", "U+11955", "U+11C55", "U+11D55",
       "U+11DA5", "U+16A65", "U+16AC5", "U+16B55", "U+1D7D3", "U+1D7DD",
       "U+1D7E7", "U+1D7F1", "U+1D7FB", "U+1E145", "U+1E2F5", "U+1E955",
       "U+1FBF5" },
     {
       "6", "U+0666", "U+06F6", "U+07C6", "U+096C", "U+09EC", "U+0A6C",
       "U+0AEC", "U+0B6C", "U+0BEC", "U+0C6C", "U+0CEC", "U+0D6C", "U+0DEC",
       "U+0E56", "U+0ED6", "U+0F26", "U+1046", "U+1096", "U+17E6", "U+1816",
       "U+194C", "U+19D6", "U+1A86", "U+1A96", "U+1B56", "U+1BB6", "U+1C46",
       "U+1C56", "U+A626", "U+A8D6", "U+A906", "U+A9D6", "U+A9F6", "U+AA56",
       "U+ABF6", "U+FF16", "U+104A6", "U+10D36", "U+1106C", "U+110F6",
       "U+1113C", "U+111D6", "U+112F6", "U+11456", "U+114D6", "U+11656",
       "U+116C6", "U+11736", "U+118E6", "U+11956", "U+11C56", "U+11D56",
       "U+11DA6", "U+16A66", "U+16AC6", "U+16B56", "U+1D7D4", "U+1D7DE",
       "U+1D7E8", "U+1D7F2", "U+1D7FC", "U+1E146", "U+1E2F6", "U+1E956",
       "U+1FBF6" },
     {
       "7", "U+0667", "U+06F7", "U+07C7", "U+096D", "U+09ED", "U+0A6D",
       "U+0AED", "U+0B6D", "U+0BED", "U+0C6D", "U+0CED", "U+0D6D", "U+0DED",
       "U+0E57", "U+0ED7", "U+0F27", "U+1047", "U+1097", "U+17E7", "U+1817",
       "U+194D", "U+19D7", "U+1A87", "U+1A97", "U+1B57", "U+1BB7", "U+1C47",
       "U+1C57", "U+A627", "U+A8D7", "U+A907", "U+A9D7", "U+A9F7", "U+AA57",
       "U+ABF7", "U+FF17", "U+104A7", "U+10D37", "U+1106D", "U+110F7",
       "U+1113D", "U+111D7", "U+112F7", "U+11457", "U+114D7", "U+11657",
       "U+116C7", "U+11737", "U+118E7", "U+11957", "U+11C57", "U+11D57",
       "U+11DA7", "U+16A67", "U+16AC7", "U+16B57", "U+1D7D5", "U+1D7DF",
       "U+1D7E9", "U+1D7F3", "U+1D7FD", "U+1E147", "U+1E2F7", "U+1E957",
       "U+1FBF7" },
     {
       "8", "U+0668", "U+06F8", "U+07C8", "U+096E", "U+09EE", "U+0A6E",
       "U+0AEE", "U+0B6E", "U+0BEE", "U+0C6E", "U+0CEE", "U+0D6E", "U+0DEE",
       "U+0E58", "U+0ED8", "U+0F28", "U+1048", "U+1098", "U+17E8", "U+1818",
       "U+194E", "U+19D8", "U+1A88", "U+1A98", "U+1B58", "U+1BB8", "U+1C48",
       "U+1C58", "U+A628", "U+A8D8", "U+A908", "U+A9D8", "U+A9F8", "U+AA58",
       "U+ABF8", "U+FF18", "U+104A8", "U+10D38", "U+1106E", "U+110F8",
       "U+1113E", "U+111D8", "U+112F8", "U+11458", "U+114D8", "U+11658",
       "U+116C8", "U+11738", "U+118E8", "U+11958", "U+11C58", "U+11D58",
       "U+11DA8", "U+16A68", "U+16AC8", "U+16B58", "U+1D7D6", "U+1D7E0",
       "U+1D7EA", "U+1D7F4", "U+1D7FE", "U+1E148", "U+1E2F8", "U+1E958",
       "U+1FBF8" },
     {
       "9", "U+0669", "U+06F9", "U+07C9", "U+096F", "U+09EF", "U+0A6F",
       "U+0AEF", "U+0B6F", "U+0BEF", "U+0C6F", "U+0CEF", "U+0D6F", "U+0DEF",
       "U+0E59", "U+0ED9", "U+0F29", "U+1049", "U+1099", "U+17E9", "U+1819",
       "U+194F", "U+19D9", "U+1A89", "U+1A99", "U+1B59", "U+1BB9", "U+1C49",
       "U+1C59", "U+A629", "U+A8D9", "U+A909", "U+A9D9", "U+A9F9", "U+AA59",
       "U+ABF9", "U+FF19", "U+104A9", "U+10D39", "U+1106F", "U+110F9",
       "U+1113F", "U+111D9", "U+112F9", "U+11459", "U+114D9", "U+11659",
       "U+116C9", "U+11739", "U+118E9", "U+11959", "U+11C59", "U+11D59",
       "U+11DA9", "U+16A69", "U+16AC9", "U+16B59", "U+1D7D7", "U+1D7E1",
       "U+1D7EB", "U+1D7F5", "U+1D7FF", "U+1E149", "U+1E2F9", "U+1E959",
       "U+1FBF9" } >>

Digits == UNION {DigitChars[d + 1] : d \in 0..9}

DigitValue(c) == CHOOSE d \in 0..9 : c \in DigitChars[d + 1]

\* The value of a non-empty sequence of digits.
RECURSIVE IntValue(_)
IntValue(s) ==
  IF Len(s) = 1 THEN DigitValue(s[1])
  ELSE 10 * IntValue(SubSeq(s, 1, Len(s) - 1)) + DigitValue(s[Len(s)])

\* The white space int() drops at both ends of its argument.
IntSpace ==
  {
    "\t", "\n", "U+000B", "\f", "\r", " ", "U+0085", "U+00A0", "U+1680",
    "U+2000", "U+2001", "U+2002", "U+2003", "U+2004", "U+2005", "U+2006",
    "U+2007", "U+2008", "U+2009", "U+200A", "U+2028", "U+2029", "U+202F",
    "U+205F", "U+3000" }

\* The white space str.strip() drops: that of int() and the separators FS,
\* GS, RS and US.
Whitespace == IntSpace \cup {"U+001C", "U+001D", "U+001E", "U+001F"}

RECURSIVE LStripSpace(_, _)
LStripSpace(s, spaces) ==
  IF s # << >> /\ s[1] \in spaces THEN LStripSpace(Tail(s), spaces) ELSE s

RECURSIVE RStripSpace(_, _)
RStripSpace(s, spaces) ==
  IF s # << >> /\ s[Len(s)] \in spaces
  THEN RStripSpace(SubSeq(s, 1, Len(s) - 1), spaces) ELSE s

\* The digits of a decimal literal: digits, with single "_" allowed
\* between two of them.
IsDigitGroup(s) ==
  /\ s # << >>
  /\ \A i \in DOMAIN s : s[i] \in Digits \cup {"_"}
  /\ s[1] # "_" /\ s[Len(s)] # "_"
  /\ \A i \in 1..(Len(s) - 1) : ~(s[i] = "_" /\ s[i + 1] = "_")

\* sys.get_int_max_str_digits(), which check_versions.py leaves at its
\* default: the most digits int() reads and str() writes.
MaxStrDigits == 4300

\* int(text) in base 10: white space at the ends is dropped, then an optional
\* sign, then the digits, no more than MaxStrDigits of them (leading zeros
\* counted, underscores not); ok = FALSE stands for the ValueError.
ParseInt(s) ==
  LET t == RStripSpace(LStripSpace(s, IntSpace), IntSpace)
      signed == t # << >> /\ t[1] \in {"+", "-"}
      body == IF signed THEN Tail(t) ELSE t
  IN IF ~IsDigitGroup(body) THEN [ok |-> FALSE, value |-> 0]
     ELSE IF Len(Remove(body, "_")) > MaxStrDigits THEN [ok |-> FALSE, value |-> 0]
     ELSE LET magnitude == IntValue(Remove(body, "_"))
          IN [ok |-> TRUE,
              value |-> IF signed /\ t[1] = "-" THEN 0 - magnitude ELSE magnitude]

\* The decimal numeral an f-string writes for n.
RECURSIVE DecText(_)
DecText(n) ==
  IF n < 0 THEN <<"-">> \o DecText(0 - n)
  ELSE IF n < 10 THEN <<HexDigit(n)>>
  ELSE DecText(n \div 10) \o <<HexDigit(n % 10)>>

\* The digits of a numeral, its sign left out.
DigitCount(text) == Len(Remove(text, "-"))

\* bump_minor: "1.0.0" -> "1.1.0"; ok = FALSE stands for the ValueError, which
\* the f-string raises too when minor + 1 has more than MaxStrDigits digits.
bump_minor(version) ==
  LET parts == Split(version, ".")
  IN IF Len(parts) # 3 THEN [ok |-> FALSE, value |-> << >>]
     ELSE LET major == ParseInt(parts[1])
              minor == ParseInt(parts[2])
              patch == ParseInt(parts[3])
          IN IF major.ok /\ minor.ok /\ patch.ok
                /\ DigitCount(DecText(minor.value + 1)) <= MaxStrDigits
             THEN [ok |-> TRUE,
                   value |-> DecText(major.value) \o <<".">>
                               \o DecText(minor.value + 1) \o <<".", "0">>]
             ELSE [ok |-> FALSE, value |-> << >>]

\* build_git_tag: v1.2.0_lxgw1521_nerd340.
build_git_tag(pkg_version, lxgw_tag, nerd_tag) ==
  <<"v">> \o pkg_version \o <<"_", "l", "x", "g", "w">>
    \o Remove(LStrip(lxgw_tag, "v"), ".")
    \o <<"_", "n", "e", "r", "d">> \o Remove(LStrip(nerd_tag, "v"), ".")

\* set_gha_output, with github_output the value of the environment's
\* GITHUB_OUTPUT ("" when it is unset or empty): the line key=value,
\* <<key, value>>, is appended to the file the variable names; without it the
\* line is printed behind the mark "[GHA Output] ".  out.stdout holds the
\* lines this function prints.
set_gha_output(github_output, out, key, value) ==
  IF github_output # ""
  THEN [out EXCEPT !.file = Append(@, <<key, value>>)]
  ELSE [out EXCEPT !.stdout = Append(@, <<"[GHA Output] ", key, value>>)]

TextTrue == <<"t", "r", "u", "e">>
TextFalse == <<"f", "a", "l", "s", "e">>

\* ---------------------------------------------- inputs of check_versions
LxgwRecorded == <<"v", "1", ".", "5", "2", "0">>
LxgwNewer == <<"v", "1", ".", "5", "2", "1">>
NerdRecorded == <<"v", "3", ".", "4", ".", "0">>
NerdNewer == <<"v", "3", ".", "5", ".", "0">>

\* Packaging versions: two well-formed ones, one whose parts int() accepts
\* with white space, a sign and an underscore, one with white space and a
\* digit from beyond ASCII, one with two parts only, and one whose last part
\* has a digit more than int() reads.
PkgVersions ==
  { <<"1", ".", "0", ".", "0">>, <<"1", ".", "9", ".", "0">>,
    <<" ", "1", ".", "+", "2", ".", "0", "_", "0">>,
    <<"U+00A0", "1", ".", "U+000B", "U+0662", ".", "0">>, <<"1", ".", "0">>,
    <<"1", ".", "0", ".">> \o [i \in 1..(MaxStrDigits + 1) |-> "0"] }

\* The content of a well-formed versions.json.
RecordedVersions(pkg) ==
  [upstream |->
     [lxgw_wenkai |-> [tag |-> LxgwRecorded, release_date |-> "2025-01-01"],
      meslo_nerd |-> [tag |-> NerdRecorded, release_date |-> "2025-02-02"]],
   packaging |->
     ("version" :> pkg) @@ ("git_tag" :> build_git_tag(pkg, LxgwRecorded, NerdRecorded))]

\* What get_latest_release does: it raises, or returns the latest release.
Raises == [ok |-> FALSE, tag_name |-> << >>, published_at |-> ""]
Release(tag) == [ok |-> TRUE, tag_name |-> tag, published_at |-> "2026-03-03"]

\* GITHUB_REPOSITORY and what release_tag_exists meets: status 200, another
\* status, or an exception of requests.get.
OwnRepoCases ==
  { <<"", "200">>, <<"enstw/font", "200">>, <<"enstw/font", "404">>,
    <<"enstw/font", "raise">> }

VersionInputs ==
  { [file |-> f, recorded |-> RecordedVersions(pkg), lxgw |-> l, nerd |-> n,
     own_repo |-> o[1], tag_status |-> o[2], dry_run |-> d,
     github_output |-> g, now |-> "2026-10-30T00:00:00+00:00"] :
      f \in {"missing", "malformed", "valid"},
      pkg \in PkgVersions,
      l \in {Raises, Release(LxgwRecorded), Release(LxgwNewer)},
      n \in {Raises, Release(NerdRecorded), Release(NerdNewer)},
      o \in OwnRepoCases,
      d \in BOOLEAN,
      g \in {"", "/tmp/github_output"} }

\* ---------------------------------------------- main of check_versions
\* The locals current_lxgw_tag, current_nerd_tag, current_pkg_ver (lines 142-144).
Current == venv.recorded

\* Lines 134-149: exit 2 without the file; json.load raises on a malformed one
\* and nothing catches it, so the interpreter ends with status 1.
LoadVersions ==
  /\ vpc = "start"
  /\ \/ /\ versions_file.state = "missing"
        /\ exit_code' = 2
        /\ vpc' = "exited"
        /\ UNCHANGED <<versions, changed>>
     \/ /\ versions_file.state = "malformed"
        /\ exit_code' = 1
        /\ vpc' = "crashed"
        /\ UNCHANGED <<versions, changed>>
     \/ /\ versions_file.state = "valid"
        /\ versions' = versions_file.content
        /\ changed' = FALSE
        /\ vpc' = "lxgw"
        /\ UNCHANGED exit_code
  /\ UNCHANGED <<venv, versions_file, gha_output>>
  /\ UNCHANGED <<mergeVars, noteVars>>

\* Lines 152-163.
CheckLxgw ==
  /\ vpc = "lxgw"
  /\ \/ /\ venv.lxgw.ok
        /\ venv.lxgw.tag_name # Current.upstream.lxgw_wenkai.tag
        /\ versions' = [versions EXCEPT
                          !.upstream.lxgw_wenkai.tag = venv.lxgw.tag_name,
                          !.upstream.lxgw_wenkai.release_date = venv.lxgw.published_at]
        /\ changed' = TRUE
     \/ /\ venv.lxgw.ok
        /\ venv.lxgw.tag_name = Current.upstream.lxgw_wenkai.tag
        /\ UNCHANGED <<versions, changed>>
     \/ /\ ~venv.lxgw.ok
        /\ UNCHANGED <<versions, changed>>
  /\ vpc' = "nerd"
  /\ UNCHANGED <<venv, versions_file, gha_output, exit_code>>
  /\ UNCHANGED <<mergeVars, noteVars>>

\* Lines 166-177.
CheckNerd ==
  /\ vpc = "nerd"
  /\ \/ /\ venv.nerd.ok
        /\ venv.nerd.tag_name # Current.upstream.meslo_nerd.tag
        /\ versions' = [versions EXCEPT
                          !.upstream.meslo_nerd.tag = venv.nerd.tag_name,
                          !.upstream.meslo_nerd.release_date = venv.nerd.published_at]
        /\ changed' = TRUE
     \/ /\ venv.nerd.ok
        /\ venv.nerd.tag_name = Current.upstream.meslo_nerd.tag
        /\ UNCHANGED <<versions, changed>>
     \/ /\ ~venv.nerd.ok
        /\ UNCHANGED <<versions, changed>>
  /\ vpc' = "decide"
  /\ UNCHANGED <<venv, versions_file, gha_output, exit_code>>
  /\ UNCHANGED <<mergeVars, noteVars>>

\* The seven lines written when a build is triggered.
BuildOutputs(env, out, version, git_tag, lxgw_tag, nerd_tag, prev_lxgw, prev_nerd) ==
  LET o1 == set_gha_output(env, out, "VERSIONS_CHANGED", TextTrue)
      o2 == set_gha_output(env, o1, "NEW_VERSION", version)
      o3 == set_gha_output(env, o2, "GIT_TAG", git_tag)
      o4 == set_gha_output(env, o3, "LXGW_TAG", lxgw_tag)
      o5 == set_gha_output(env, o4, "NERD_TAG", nerd_tag)
      o6 == set_gha_output(env, o5, "PREV_LXGW_TAG", prev_lxgw)
  IN set_gha_output(env, o6, "PREV_NERD_TAG", prev_nerd)

\* Lines 179-203: nothing changed upstream.
NoChange ==
  /\ vpc = "decide"
  /\ ~changed
  /\ \/ /\ venv.own_repo # ""
        /\ venv.tag_status = "raise"
        /\ exit_code' = 1
        /\ vpc' = "crashed"
        /\ UNCHANGED gha_output
     \/ /\ venv.own_repo # ""
        /\ venv.tag_status \notin {"200", "raise"}
        /\ gha_output' = BuildOutputs(venv.github_output, gha_output,
                                      Current.packaging["version"],
                                      versions.packaging["git_tag"],
                                      Current.upstream.lxgw_wenkai.tag,
                                      Current.upstream.meslo_nerd.tag,
                                      << >>, << >>)
        /\ exit_code' = 1
        /\ vpc' = "exited"
     \/ /\ venv.own_repo = "" \/ venv.tag_status = "200"
        /\ gha_output' = set_gha_output(venv.github_output, gha_output,
                                        "VERSIONS_CHANGED", TextFalse)
        /\ exit_code' = 0
        /\ vpc' = "exited"
  /\ UNCHANGED <<venv, versions_file, versions, changed>>
  /\ UNCHANGED <<mergeVars, noteVars>>

\* Lines 205-240: bump the packaging version, write the file, trigger the build.
BumpAndWrite ==
  /\ vpc = "decide"
  /\ changed
  /\ LET new_pkg_ver == bump_minor(Current.packaging["version"])
         new_lxgw == versions.upstream.lxgw_wenkai.tag
         new_nerd == versions.upstream.meslo_nerd.tag
         new_git_tag == build_git_tag(new_pkg_ver.value, new_lxgw, new_nerd)
         packaging == Put(Put(Put(Put(Put(versions.packaging,
                        "prev_lxgw_tag", Current.upstream.lxgw_wenkai.tag),
                        "prev_nerd_tag", Current.upstream.meslo_nerd.tag),
                        "version", new_pkg_ver.value),
                        "last_built", venv.now),
                        "git_tag", new_git_tag)
     IN \/ /\ ~new_pkg_ver.ok
           /\ exit_code' = 1
           /\ vpc' = "crashed"
           /\ UNCHANGED <<versions, versions_file, gha_output>>
        \/ /\ new_pkg_ver.ok
           /\ versions' = [versions EXCEPT !.packaging = packaging]
           /\ versions_file' = IF venv.dry_run THEN versions_file
                                ELSE [versions_file EXCEPT !.content = versions']
           /\ gha_output' = BuildOutputs(venv.github_output, gha_output,
                                         new_pkg_ver.value, new_git_tag,
                                         new_lxgw, new_nerd,
                                         Current.upstream.lxgw_wenkai.tag,
                                         Current.upstream.meslo_nerd.tag)
           /\ exit_code' = 1
           /\ vpc' = "exited"
  /\ UNCHANGED <<venv, changed>>
  /\ UNCHANGED <<mergeVars, noteVars>>

\* merge.py is not running: a standard pair of fonts, loaded and left alone.
MergeIdle ==
  MergeInit(Input(BaseFont(MakeTables(StdKinds, (cpZhong :> "cjk_zhong")), TRUE, TRUE),
                  DonorFont(1000, MakeTables(StdKinds, (cpA :> "A")), SimpleGlyf,
                            FullHmtx, DefaultOs2, DefaultHhea),
                  TRUE, <<"Regular">>),
            "idle")

InitVersions ==
  /\ MergeIdle
  /\ NotesIdle
  /\ \E e \in VersionInputs :
       /\ venv = e
       /\ versions_file = [state |-> e.file, content |-> e.recorded]
  /\ vpc = "start"
  /\ versions = EmptyMap
  /\ changed = FALSE
  /\ gha_output = [file |-> << >>, stdout |-> << >>]
  /\ exit_code = -1

NextVersions ==
  \/ LoadVersions
  \/ CheckLxgw
  \/ CheckNerd
  \/ NoChange
  \/ BumpAndWrite

SpecVersions == InitVersions /\ [][NextVersions]_vars


\* =================================================== build_release_notes.py
\* A changelog and an argument value are texts: sequences of characters, the
\* line breaks among them.
\* Default of truncate_body's max_lines.
MaxLines == 50

\* The ASCII capital of a letter of the words parse_bool knows.
Capital(c) ==
  CASE c = "t" -> "T" [] c = "r" -> "R" [] c = "u" -> "U" [] c = "e" -> "E"
    [] c = "y" -> "Y" [] c = "s" -> "S" [] OTHER -> c

\* text.lower() == word, for a word of these letters and digits: str.lower()
\* goes character by character, and it turns a letter and its ASCII capital,
\* and no other character of Unicode, into each of t, r, u, e, y, s, and the
\* digit 1 alone into 1.
LowersTo(text, word) ==
  /\ Len(text) = Len(word)
  /\ \A i \in DOMAIN word : text[i] \in {word[i], Capital(word[i])}

\* parse_bool: value.lower() in ("true", "1", "yes").
parse_bool(value) ==
  \E word \in {<<"t", "r", "u", "e">>, <<"1">>, <<"y", "e", "s">>} :
    LowersTo(value, word)

\* str.strip(): the white space at both ends goes.
Strip(body) == RStripSpace(LStripSpace(body, Whitespace), Whitespace)

\* The line boundaries of str.splitlines().
LineBreaks ==
  {
    "\n", "U+000B", "\f", "\r", "U+001C", "U+001D", "U+001E", "U+0085",
    "U+2028", "U+2029" }

\* str.splitlines(): the lines without their line breaks; "\r\n" is one line
\* break, and a line break at the end of the text starts no further line.
RECURSIVE SplitLines(_)
SplitLines(s) ==
  LET hits == {i \in DOMAIN s : s[i] \in LineBreaks}
      i == FirstMatch(hits)
      j == IF s[i] = "\r" /\ i < Len(s) /\ s[i + 1] = "\n" THEN i + 1 ELSE i
  IN IF s = << >> THEN << >>
     ELSE IF hits = {} THEN <<s>>
     ELSE <<SubSeq(s, 1, i - 1)>> \o SplitLines(SubSeq(s, j + 1, Len(s)))

\* "\n".join(lines)
RECURSIVE JoinLines(_)
JoinLines(lines) ==
  IF lines = << >> THEN << >>
  ELSE IF Len(lines) = 1 THEN lines[1]
  ELSE lines[1] \o <<"\n">> \o JoinLines(Tail(lines))

\* Stand-ins for the three fixed Chinese phrases of lines 61, 72 and 74, each
\* phrase written as a single element of the text.
TruncationNote == <<"_...(full text on the upstream release page)_">>
NoChangelogNote == <<"_(no changelog)_">>
UnchangedNote == <<"_(no change in this version)_">>

truncate_body(body, max_lines) ==
  LET lines == SplitLines(body)
  IN IF Len(lines) <= max_lines THEN body
     ELSE JoinLines(SubSeq(lines, 1, max_lines)) \o <<"\n", "\n">> \o TruncationNote

\* build_notes lines 71-79: the section of one upstream.
Section(is_changed, body) ==
  IF is_changed
  THEN IF Strip(body) # << >> THEN truncate_body(Strip(body), MaxLines)
       ELSE NoChangelogNote
  ELSE UnchangedNote

\* build_notes: the parts of the document that depend on the arguments.
build_notes(version, lxgw_tag, nerd_tag, lbody, nbody, lchanged, nchanged) ==
  [version |-> version,
   lxgw_tag |-> lxgw_tag,
   nerd_tag |-> nerd_tag,
   lxgw_url |-> "https://github.com/lxgw/LxgwWenKai/releases/tag/" \o lxgw_tag,
   nerd_url |-> "https://github.com/ryanoasis/nerd-fonts/releases/tag/" \o nerd_tag,
   lxgw_section |-> Section(lchanged, lbody),
   nerd_section |-> Section(nchanged, nbody)]

\* ------------------------------------------ inputs of build_release_notes
\* --lxgw-changed / --nerd-changed: << >> when omitted, else <<value>>.
FlagArgs ==
  { << >>, <<TextTrue>>, <<TextFalse>>, <<<<"T", "R", "U", "E">>>>, <<<<"1">>>>,
    <<<<"y", "e", "s">>>>, <<<<"n", "o">>>>, <<<<"0">>>>,
    <<<<"t", "r", "u", "U+00C9">>>> }

\* argparse: default="true".
ArgValue(flag) == IF flag = << >> THEN TextTrue ELSE flag[1]

\* A changelog of n one-letter lines, each ended by `ending`.
RECURSIVE EntryLines(_, _)
EntryLines(n, ending) ==
  IF n = 0 THEN << >> ELSE <<"e">> \o ending \o EntryLines(n - 1, ending)

\* What the release request gives: a failure, or the release's body (none,
\* white space only, one line inside white space, as many lines as are shown
\* in full, one line more, one line more with Windows line ends, white space
\* from beyond ASCII only, one line more with line separators).
Fetches ==
  { [ok |-> FALSE, body |-> << >>],
    [ok |-> TRUE, body |-> << >>],
    [ok |-> TRUE, body |-> <<" ", "\n", "\t">>],
    [ok |-> TRUE, body |-> <<"\n", " ", "f", "i", "x", " ", "\n">>],
    [ok |-> TRUE, body |-> EntryLines(MaxLines, <<"\n">>)],
    [ok |-> TRUE, body |-> <<"\n">> \o EntryLines(MaxLines + 1, <<"\n">>)],
    [ok |-> TRUE, body |-> EntryLines(MaxLines + 1, <<"\r", "\n">>)],
    [ok |-> TRUE, body |-> <<"U+00A0", "U+001F", "U+000B">>],
    [ok |-> TRUE, body |-> <<"U+0085">> \o EntryLines(MaxLines + 1, <<"U+2028">>)] }

NoteInputs ==
  { [version |-> "1.1.0", lxgw_tag |-> "v1.521", nerd_tag |-> "v3.4.0",
     lxgw_flag |-> lf, nerd_flag |-> nf, lxgw_fetch |-> lr, nerd_fetch |-> nr] :
      lf \in FlagArgs, nf \in FlagArgs, lr \in Fetches, nr \in Fetches }

\* get_release_body: "" on a failure.
get_release_body(fetch) == IF fetch.ok THEN fetch.body ELSE << >>

\* ------------------------------------------ main of build_release_notes
\* Lines 153-154.
ParseArgs ==
  /\ npc = "start"
  /\ lxgw_changed' = parse_bool(ArgValue(nargs.lxgw_flag))
  /\ nerd_changed' = parse_bool(ArgValue(nargs.nerd_flag))
  /\ npc' = "lxgw"
  /\ UNCHANGED <<nargs, lxgw_body, nerd_body, notes_file>>
  /\ UNCHANGED <<mergeVars, versionVars>>

\* Lines 156-161.
FetchLxgw ==
  /\ npc = "lxgw"
  /\ \/ /\ lxgw_changed
        /\ lxgw_body' = get_release_body(nargs.lxgw_fetch)
     \/ /\ ~lxgw_changed
        /\ lxgw_body' = << >>
  /\ npc' = "nerd"
  /\ UNCHANGED <<nargs, lxgw_changed, nerd_changed, nerd_body, notes_file>>
  /\ UNCHANGED <<mergeVars, versionVars>>

\* Lines 163-168.
FetchNerd ==
  /\ npc = "nerd"
  /\ \/ /\ nerd_changed
        /\ nerd_body' = get_release_body(nargs.nerd_fetch)
     \/ /\ ~nerd_changed
        /\ nerd_body' = << >>
  /\ npc' = "build"
  /\ UNCHANGED <<nargs, lxgw_changed, nerd_changed, lxgw_body, notes_file>>
  /\ UNCHANGED <<mergeVars, versionVars>>

\* Lines 170-183.
WriteNotes ==
  /\ npc = "build"
  /\ notes_file' = <<build_notes(nargs.version, nargs.lxgw_tag, nargs.nerd_tag,
                                 lxgw_body, nerd_body, lxgw_changed, nerd_changed)>>
  /\ npc' = "written"
  /\ UNCHANGED <<nargs, lxgw_changed, nerd_changed, lxgw_body, nerd_body>>
  /\ UNCHANGED <<mergeVars, versionVars>>

InitNotes ==
  /\ MergeIdle
  /\ VersionsIdle
  /\ \E a \in NoteInputs : nargs = a
  /\ npc = "start"
  /\ lxgw_changed = FALSE
  /\ nerd_changed = FALSE
  /\ lxgw_body = << >>
  /\ nerd_body = << >>
  /\ notes_file = << >>

NextNotes ==
  \/ ParseArgs
  \/ FetchLxgw
  \/ FetchNerd
  \/ WriteNotes

SpecNotes == InitNotes /\ [][NextNotes]_vars

\* ================================================================== claims
\* Shorthands used by the properties below.
BaseBest0 == get_best_cmap(base0).cmap
Processed == DOMAIN src_cmap \ todo
Succeeded == Processed \ failed
AfterTransplant ==
  pc \in {"order", "post", "metadata", "os2", "validate", "vmtx", "save", "done"}
NameOf(cp) == glyph_name_for_codepoint(cp, Prefix)
Maps(t, cp, name) == cp \in DOMAIN t.cmap /\ t.cmap[cp] = name

\* C1 (base priority): once transplant_glyphs has run, every base cmap
\* subtable that maps a codepoint the base's cmap mapped before the merge still
\* maps it to the glyph name it had before the merge.
C1_BasePriority ==
  AfterTransplant =>
    \A cp \in DOMAIN BaseBest0 :
      \A i \in DOMAIN base.cmap :
        cp \in DOMAIN base.cmap[i].cmap => base.cmap[i].cmap[cp] = BaseBest0[cp]

\* C2 as claimed (additive): after transplant_glyphs, every codepoint the donor's
\* resolved cmap maps and the base's did not is mapped by the base's resolved
\* cmap to glyph_name_for_codepoint(cp, prefix), a glyph of the base outline
\* table whose outline and hmtx entry equal the donor glyph's.
C2_AdditiveAsClaimed ==
  AfterTransplant =>
    \A cp \in DOMAIN src_cmap \ DOMAIN BaseBest0 :
      /\ Maps([cmap |-> get_best_cmap(base).cmap], cp, NameOf(cp))
      /\ NameOf(cp) \in DOMAIN base.glyf
      /\ src_cmap[cp] \in DOMAIN donor.glyf
      /\ base.glyf[NameOf(cp)] = donor.glyf[src_cmap[cp]]
      /\ NameOf(cp) \in DOMAIN base.hmtx
      /\ src_cmap[cp] \in DOMAIN donor.hmtx
      /\ base.hmtx[NameOf(cp)] = donor.hmtx[src_cmap[cp]]

\* A subtable of a Unicode platform whose format can hold the codepoint.
Accepts(t, cp) ==
  /\ t.platformID \in {0, 3}
  /\ \/ t.format \in {12, 13}
     \/ t.format \in {4, 6} /\ cp <= BMPMax

\* The donor glyph with each component reference replaced by "_ens_" + name.
Renamed(g) ==
  [g EXCEPT !.components = [i \in DOMAIN g.components |-> "_ens_" \o g.components[i]]]

\* The outline of a base glyph equals g; once rebuild_vmtx has run (line 450
\* rewrites the stored bounds of the glyphs it gives a vmtx entry), up to the
\* stored bounds.
SameOutline(name, g) ==
  IF pc \in {"save", "done"}
  THEN [base.glyf[name] EXCEPT !.yMax = g.yMax] = g
  ELSE base.glyf[name] = g

\* The entry of a map under a key, << >> for none.
EntryOf(map, k) == IF k \in DOMAIN map THEN <<map[k]>> ELSE << >>

\* C2 amended (additive): for every codepoint the donor's resolved cmap maps and
\* the base's did not, once its iteration of the loop of transplant_glyphs is
\* over: if copy_glyph raised, the base's resolved cmap still does not map it,
\* every subtable the base was loaded with has for it the entry it was loaded
\* with and no added subtable maps it; if not, with
\* glyph_name_for_codepoint(cp, prefix) for the name, every base subtable of platform 0 or 3 whose format can hold the
\* codepoint (so also the resolved cmap, when it is read from such a subtable)
\* maps it to the name, and the name is in the base outline table: where the
\* base held that name already before the merge, with the outline and the hmtx
\* entry the base had, and where not, with the hmtx entry of the donor glyph
\* and the donor glyph's outline, its component references renamed, up to the
\* bounds rebuild_vmtx recalculates.
C2_Additive ==
  \A cp \in Processed \ DOMAIN BaseBest0 :
    IF cp \in failed
    THEN /\ cp \notin DOMAIN get_best_cmap(base).cmap
         /\ \A i \in DOMAIN base.cmap :
              IF i \in DOMAIN base0.cmap
              THEN EntryOf(base.cmap[i].cmap, cp) = EntryOf(base0.cmap[i].cmap, cp)
              ELSE cp \notin DOMAIN base.cmap[i].cmap
    ELSE /\ \A i \in DOMAIN base.cmap :
              Accepts(base.cmap[i], cp) => Maps(base.cmap[i], cp, NameOf(cp))
         /\ Accepts(base.cmap[BestIndex(base.cmap)], cp)
              => Maps([cmap |-> get_best_cmap(base).cmap], cp, NameOf(cp))
         /\ NameOf(cp) \in DOMAIN base.glyf
         /\ IF NameOf(cp) \in DOMAIN base0.glyf
            THEN /\ SameOutline(NameOf(cp), base0.glyf[NameOf(cp)])
                 /\ EntryOf(base.hmtx, NameOf(cp)) = EntryOf(base0.hmtx, NameOf(cp))
            ELSE /\ SameOutline(NameOf(cp), Renamed(donor.glyf[src_cmap[cp]]))
                 /\ NameOf(cp) \in DOMAIN base.hmtx
                 /\ base.hmtx[NameOf(cp)] = donor.hmtx[src_cmap[cp]]

\* C2 witness: a rescaled donor composite above no base codepoint has been
\* transplanted and the resolved cmap of the saved font maps it, and the copy
\* for another codepoint the base did not map has raised.
C2_Witness ==
  /\ pc = "done"
  /\ base0.upm # 2048 /\ donor.upm = base0.upm
  /\ cpA \in Succeeded \ DOMAIN BaseBest0
  /\ donor.glyf[src_cmap[cpA]].components # << >>
  /\ Maps([cmap |-> get_best_cmap(base).cmap], cpA, "mes_uni0041")
  /\ base.hmtx["mes_uni0041"] = <<600, 59>>
  /\ cpB \in failed \ DOMAIN BaseBest0

IsNarrow(t) == t.format \in {4, 6}
NarrowTablesInRange ==
  \A i \in DOMAIN base.cmap :
    IsNarrow(base.cmap[i]) => \A k \in DOMAIN base.cmap[i].cmap : k <= BMPMax

\* C3 as claimed (range safety): no narrow subtable of the base ever holds a
\* codepoint above 0xFFFF, and once update_cmap has run for a codepoint, every
\* narrow subtable of a Unicode platform maps it if it is a BMP codepoint and
\* every wide (format 12 or 13) subtable maps it.
C3_RangeSafetyAsClaimed ==
  /\ NarrowTablesInRange
  /\ \A cp \in Succeeded :
       \A i \in DOMAIN base.cmap :
         LET t == base.cmap[i]
         IN /\ (IsNarrow(t) /\ t.platformID \in {0, 3} /\ cp <= BMPMax)
                 => Maps(t, cp, NameOf(cp))
            /\ t.format \in {12, 13} => Maps(t, cp, NameOf(cp))

\* C3 amended (range safety): no narrow subtable of the base ever holds a
\* codepoint above 0xFFFF, and once update_cmap has run for a codepoint, every
\* narrow subtable of platform 0 or 3 maps it if it is a BMP codepoint and
\* every wide subtable of platform 0 or 3 maps it; subtables of any other
\* platform, and narrow subtables for a codepoint above 0xFFFF, are not written.
C3_RangeSafety ==
  /\ NarrowTablesInRange
  /\ \A cp \in Succeeded :
       \A i \in DOMAIN base.cmap :
         LET t == base.cmap[i]
         IN /\ (IsNarrow(t) /\ t.platformID \in {0, 3} /\ cp <= BMPMax)
                 => Maps(t, cp, NameOf(cp))
            /\ (t.format \in {12, 13} /\ t.platformID \in {0, 3})
                 => Maps(t, cp, NameOf(cp))
            /\ (t.platformID \notin {0, 3} \/ (IsNarrow(t) /\ cp > BMPMax))
                 => ~Maps(t, cp, NameOf(cp))

\* C3 witness: the base had only a wide subtable holding U+20000, so that
\* ensure_cmap_subtables built the narrow one, and a codepoint above 0xFFFF and
\* a BMP codepoint have both been transplanted.
C3_Witness ==
  /\ pc = "order"
  /\ \A i \in DOMAIN base0.cmap : base0.cmap[i].format = 12
  /\ cpExt \in DOMAIN BaseBest0
  /\ {cpA, cpIcon} \subseteq Succeeded
  /\ \E i \in DOMAIN base.cmap :
       /\ base.cmap[i].format = 4
       /\ Maps(base.cmap[i], cpA, "mes_uni0041")
       /\ cpIcon \notin DOMAIN base.cmap[i].cmap
  /\ \E i \in DOMAIN base.cmap :
       base.cmap[i].format = 12 /\ Maps(base.cmap[i], cpIcon, "mes_u0F0001")

\* C4 (metrics completeness): in the saved font of a base whose glyphs all had
\* hmtx entries, every name of the glyph order has an hmtx entry and, when the
\* base has vmtx and vhea, a vmtx entry.
C4_MetricsComplete ==
  pc = "done" =>
    \A n \in Range(output[1].order) :
      /\ n \in DOMAIN output[1].hmtx
      /\ (output[1].has_vmtx /\ output[1].has_vhea) => n \in DOMAIN output[1].vmtx

\* C5 (metrics consistency): after set_os2_metrics the base has
\* hhea.ascent = usWinAscent = sTypoAscender and
\* hhea.descent = -usWinDescent = sTypoDescender.
C5_MetricsConsistent ==
  pc \in {"validate", "vmtx", "save", "done"} =>
    /\ base.hhea.ascent = base.os2.usWinAscent
    /\ base.os2.usWinAscent = base.os2.sTypoAscender
    /\ base.hhea.descent = -base.os2.usWinDescent
    /\ base.hhea.descent = base.os2.sTypoDescender

\* The donor glyphs a donor glyph references, directly or through components.
RECURSIVE DonorReach(_, _)
DonorReach(S, fuel) ==
  LET next == S \cup UNION {Range(donor.glyf[n].components) : n \in S \cap DOMAIN donor.glyf}
  IN IF fuel = 0 \/ next = S THEN S ELSE DonorReach(next, fuel - 1)

ComponentsOf(name) ==
  IF name \in DOMAIN donor.glyf
  THEN DonorReach(Range(donor.glyf[name].components), Cardinality(DonorNames))
  ELSE {}

\* C6 (dedup): copy_glyph never stores an outline under a name twice, and
\* every donor glyph referenced as a component by a transplanted glyph, however
\* often and by however many composites, has exactly one entry in the base
\* outline table, named "_ens_" + its donor name and stored exactly once.
C6_Dedup ==
  /\ \A n \in DOMAIN copies : copies[n] = 1 /\ n \in DOMAIN base.glyf
  /\ \A cp \in Succeeded :
       \A c \in ComponentsOf(src_cmap[cp]) :
         /\ ("_ens_" \o c) \in DOMAIN base.glyf
         /\ ("_ens_" \o c) \in DOMAIN copies
         /\ copies["_ens_" \o c] = 1

\* C6 witness: donor glyph A is referenced twice by composite B and once by
\* composite C, both were transplanted, and "_ens_A" was stored once.
C6_Witness ==
  /\ pc = "order"
  /\ {cpA, cpB} \subseteq Succeeded
  /\ donor.glyf[src_cmap[cpA]].components = <<"A", "A">>
  /\ donor.glyf[src_cmap[cpB]].components = <<"A">>
  /\ base.glyf["mes_uni0041"].components = <<"_ens_A", "_ens_A">>
  /\ base.glyf["mes_uni0042"].components = <<"_ens_A">>
  /\ copies["_ens_A"] = 1

\* The donor glyphs a name of the base outline table can be the copy of.
SourcesOf(n) ==
  {src_cmap[cp] : cp \in {c \in DOMAIN src_cmap : NameOf(c) = n}}
    \cup {c \in DOMAIN donor.glyf : "_ens_" \o c = n}

\* C7 (composite closure): every glyph the merge inserted into the base is the
\* copy of a donor glyph, references only names present in the base outline
\* table, and each reference is "_ens_" + the name the donor glyph referenced,
\* not that name itself; inserted components are inserted glyphs themselves, so
\* this covers every nesting depth.
C7_CompositeClosure ==
  \A n \in DOMAIN base.glyf \ DOMAIN base0.glyf :
    \E s \in SourcesOf(n) \cap DOMAIN donor.glyf :
      LET mine == base.glyf[n].components
          theirs == donor.glyf[s].components
      IN /\ Len(mine) = Len(theirs)
         /\ \A i \in DOMAIN mine :
              /\ mine[i] = "_ens_" \o theirs[i]
              /\ mine[i] # theirs[i]
              /\ mine[i] \in DOMAIN base.glyf
              /\ mine[i] \notin DOMAIN base0.glyf

\* C7 witness: B references C and C references A; all three are in the base
\* under their new names after the loop.
C7_Witness ==
  /\ pc = "order"
  /\ cpA \in Succeeded
  /\ donor.glyf[src_cmap[cpA]].components = <<"C">>
  /\ donor.glyf["C"].components = <<"A">>
  /\ base.glyf["mes_uni0041"].components = <<"_ens_C">>
  /\ base.glyf["_ens_C"].components = <<"_ens_A">>
  /\ "_ens_A" \in DOMAIN base.glyf

IsPrefix(a, b) == Len(a) <= Len(b) /\ \A i \in DOMAIN a : a[i] = b[i]

\* C8 as claimed (stage order): a run that reaches the save has run the stages
\* once each in the order of the spec's overview: UPM, cmap coverage,
\* transplant, glyph order, metrics, vertical metrics, naming table, validation,
\* save.
C8_StageOrderAsClaimed ==
  pc = "done" =>
    trace = <<"upm", "cmap", "transplant", "order", "metrics", "vmtx", "names",
              "validate", "save">>

\* The order of the calls in merge_fonts.
CodeOrder(with_vmtx) ==
  <<"upm", "cmap", "transplant", "order", "names", "metrics", "validate">>
    \o (IF with_vmtx THEN <<"vmtx">> ELSE << >>) \o <<"save">>

\* C8 amended (stage order): within one merge_fonts run the stages execute at
\* most once each and in the order UPM normalization, cmap coverage synthesis,
\* glyph transplantation, glyph order reconciliation, naming table build,
\* metrics synchronization, integrity validation, vertical metrics rebuild (run
\* only for a base with vmtx and vhea), save; a run that reaches the save has
\* run all of them, and no glyph is copied before UPM normalization has finished.
C8_StageOrder ==
  /\ IsPrefix(trace, CodeOrder(base0.has_vmtx /\ base0.has_vhea))
  /\ pc = "done" => trace = CodeOrder(base0.has_vmtx /\ base0.has_vhea)
  /\ (base.glyf # base0.glyf \/ copies # EmptyMap)
       => (Len(trace) >= 3 /\ trace[1] = "upm" /\ donor.upm = base.upm)

\* C8 witness: a run with a donor on a 2048 grid and a base with vertical
\* tables has rescaled the donor, copied glyphs and saved.
C8_Witness ==
  /\ pc = "done"
  /\ base0.has_vmtx /\ base0.has_vhea
  /\ donor.upm = base.upm
  /\ donor.glyf["A"].yMax = 750
  /\ count > 0
  /\ trace = <<"upm", "cmap", "transplant", "order", "names", "metrics",
               "validate", "vmtx", "save">>

\* No subtable matches a rule of the resolver.
NoUsableSubtable(tables) ==
  \A i \in DOMAIN tables :
    /\ ~(tables[i].platformID = 3 /\ tables[i].platEncID \in {1, 10})
    /\ tables[i].platformID # 0

FatalInput ==
  \/ NoUsableSubtable(base0.cmap)
  \/ NoUsableSubtable(donor.cmap)
  \/ (base0.upm # donor.upm /\ ~scaleAvailable)

\* C9 (fatal errors produce no output): when the base or the donor has no
\* subtable matching a resolver rule, or the units per em differ and scaling is
\* unavailable, the run never gets past the start of transplant_glyphs: it ends
\* in an error, the save step is not reached and no output is written.
C9_FatalNoOutput ==
  FatalInput =>
    /\ output = << >>
    /\ pc \in {"upm", "ensure", "transplant", "exit", "raised"}
    /\ Len(trace) <= 2

\* C9 witness: the donor has no usable subtable; the run passed UPM
\* normalization and cmap synthesis (which added a subtable to the base in
\* memory) and then raised.
C9_Witness ==
  /\ pc = "raised"
  /\ NoUsableSubtable(donor.cmap)
  /\ ~NoUsableSubtable(base0.cmap)
  /\ Len(donor.cmap) > 0
  /\ trace = <<"upm", "cmap">>
  /\ output = << >>

\* The names reachable from S through component references inside glyf.
RECURSIVE Closure(_, _, _)
Closure(glyf, S, fuel) ==
  LET next == S \cup UNION {Range(glyf[n].components) : n \in S \cap DOMAIN glyf}
  IN IF fuel = 0 \/ next = S THEN S ELSE Closure(glyf, next, fuel - 1)

\* What a font holds for one codepoint: its target in every subtable, and the
\* outline and hmtx entries of its glyph and of that glyph's components.
View(font, cp) ==
  LET names == Closure(font.glyf, {NameOf(cp)}, Cardinality(DonorNames) + 1)
  IN [targets |-> [i \in DOMAIN font.cmap |->
                     IF cp \in DOMAIN font.cmap[i].cmap
                     THEN <<font.cmap[i].cmap[cp]>> ELSE << >>],
      outlines |-> Restrict(font.glyf, names),
      metrics |-> Restrict(font.hmtx, names)]

\* C10 (per-glyph failure containment): when the loop of transplant_glyphs has
\* ended, every codepoint was visited, the base cmap holds for a failed
\* codepoint what it held before the loop, and for every other donor codepoint
\* the base holds (cmap target, outlines and hmtx entries of its glyph and of
\* the glyph's components) what it holds after a run whose donor cmap lacks
\* the failed codepoints.
C10_FailureContained ==
  pc = "order" =>
    /\ todo = {}
    /\ \A cp \in failed : View(base, cp).targets = View(ref, cp).targets
    /\ \A cp \in DOMAIN src_cmap \ failed : View(base, cp) = View(ref, cp)

\* The advance widths of the glyphs the resolved cmap of the base maps from
\* U+0020..U+007E (a mapped name without an hmtx entry has no width).
MappedAsciiWidths ==
  LET resolved == get_best_cmap(base).cmap
      mapped == {cp \in 32..126 : cp \in DOMAIN resolved}
  IN {base.hmtx[resolved[cp]][1] : cp \in {c \in mapped : resolved[c] \in DOMAIN base.hmtx}}

Classified(widths) ==
  CASE Cardinality(widths) > 1 -> "violation"
    [] Cardinality(widths) = 1 -> "ok"
    [] widths = {} -> "not_verifiable"

\* C11 (validator is advisory): once validate_monospace_integrity has run, what
\* it logged is the class of the set of advance widths of the mapped ASCII
\* glyphs of the final font (violation for more than one width, ok for exactly
\* one, not verifiable for none); the run is then at the vertical metrics
\* step, the save or the end, never in an error, and the next stage can run;
\* the finished run has written the font; and the validator's own step changes
\* neither font.
C11_Advisory ==
  /\ [](/\ pc \in {"vmtx", "save", "done"} => verdict = Classified(MappedAsciiWidths)
        /\ verdict # "" => pc \in {"vmtx", "save", "done"}
        /\ pc \in {"validate", "vmtx", "save"} => ENABLED Next
        /\ pc = "done" => output = <<base>>)
  /\ [][pc = "validate" => (base' = base /\ donor' = donor /\ pc' = "vmtx")]_vars

\* C11 witness: the saved font maps U+0041 and U+0042 to glyphs of different
\* advance widths, the validator logged the violation and the font was written.
C11_Witness ==
  /\ pc = "done"
  /\ verdict = "violation"
  /\ output = <<base>>
  /\ LET resolved == get_best_cmap(base).cmap
     IN /\ {cpA, cpB} \subseteq DOMAIN resolved
        /\ base.hmtx[resolved[cpA]][1] # base.hmtx[resolved[cpB]][1]

AfterOrder == pc \in {"post", "metadata", "os2", "validate", "vmtx", "save", "done"}

Occurrences(seq, x) == Cardinality({i \in DOMAIN seq : seq[i] = x})

\* C12 (glyph order reconciliation): after fix_glyph_order the glyph order
\* lists every name of the base outline table exactly once and starts with the
\* glyph order the base was loaded with; and the call itself only appends: the
\* order before it is a prefix of the order after it, and each appended name is
\* a name of the outline table the old order lacked.
C12_GlyphOrder ==
  /\ [](AfterOrder =>
          /\ \A n \in DOMAIN base.glyf : Occurrences(base.order, n) = 1
          /\ IsPrefix(base0.order, base.order))
  /\ [][pc = "order" =>
          /\ IsPrefix(base.order, base'.order)
          /\ \A i \in (Len(base.order) + 1)..Len(base'.order) :
               /\ base'.order[i] \in DOMAIN base.glyf
               /\ Occurrences(base.order, base'.order[i]) = 0]_vars

\* C12 witness: a composite and its component were transplanted, and the new
\* order is the old one followed by the component's name and then the
\* composite's (the reverse of the order in which they were requested).
C12_Witness ==
  /\ pc = "post"
  /\ "mes_uni0041" \in DOMAIN base.glyf
  /\ base.glyf["mes_uni0041"].components = <<"_ens_A">>
  /\ Len(base.order) >= Len(base0.order) + 2
  /\ SubSeq(base.order, 1, Len(base0.order)) = base0.order
  /\ base.order[Len(base0.order) + 1] = "_ens_A"
  /\ base.order[Len(base0.order) + 2] = "mes_uni0041"

\* The positions of the subtables of one platform and one of the encodings.
Positions(tables, platform, encodings) ==
  {i \in DOMAIN tables :
     tables[i].platformID = platform /\ tables[i].platEncID \in encodings}

Lowest(S) == CHOOSE i \in S : \A j \in S : i <= j

\* The subtable the priority rule names: Windows full Unicode (3,10), else
\* Windows BMP (3,1), else platform 0 with any encoding; 0 when there is none.
Preferred(tables) ==
  LET wide == Positions(tables, 3, {10})
      narrow == Positions(tables, 3, {1})
      generic == {i \in DOMAIN tables : tables[i].platformID = 0}
  IN IF wide # {} THEN Lowest(wide)
     ELSE IF narrow # {} THEN Lowest(narrow)
     ELSE IF generic # {} THEN Lowest(generic)
     ELSE 0

\* The font after an item assignment on the table a resolver call returned.
AfterWriteTo(font, result, codepoint, name) ==
  IF result.alias = 0 THEN font
  ELSE [font EXCEPT !.cmap[result.alias].cmap = Put(@, codepoint, name)]

ResolvesAsRuled(font) ==
  LET r == get_best_cmap(font)
      want == Preferred(font.cmap)
  IN /\ r.ok <=> want # 0
     /\ BestIndex(font.cmap) = want
     /\ r.ok => r.cmap = font.cmap[want].cmap
     /\ \A cp \in {cpA, cpIcon} : AfterWriteTo(font, r, cp, "other") = font

\* C13 (resolver priority): for the subtable list of either font, at every
\* point of the run, get_best_cmap returns the mapping of the first (3,10)
\* subtable if there is one, otherwise of the first (3,1) subtable, otherwise
\* of the first platform 0 subtable, and raises exactly when no subtable matches
\* one of the three rules; what it returns is an object of its own, so an item
\* assignment on it leaves the font as it was.
C13_ResolverPriority ==
  /\ ResolvesAsRuled(base)
  /\ ResolvesAsRuled(donor)

\* C13 witness: the base lists a Windows BMP subtable before a Windows
\* full-Unicode one, the two hold different mappings, and the call made by
\* ensure_cmap_subtables resolved to the second.
C13_Witness ==
  /\ pc = "transplant"
  /\ Len(base0.cmap) = 2
  /\ base0.cmap[1].platformID = 3 /\ base0.cmap[1].platEncID = 1
  /\ base0.cmap[2].platformID = 3 /\ base0.cmap[2].platEncID = 10
  /\ base0.cmap[1].cmap # base0.cmap[2].cmap
  /\ get_best_cmap(base0).ok
  /\ get_best_cmap(base0).cmap = base0.cmap[2].cmap
  /\ cpExt \in DOMAIN get_best_cmap(base0).cmap

AfterNames == pc \in {"os2", "validate", "vmtx", "save", "done"}

OwnedIds == {0, 1, 2, 3, 4, 5, 6, 8, 11, 13, 14, 19}

\* (platform, encoding, language): zh-TW and en-US on Windows, Traditional
\* Chinese on the Mac; 0x0404 = 1028 and 0x0409 = 1033.
OwnedTriples == {<<3, 1, 1028>>, <<3, 1, 1033>>, <<1, 0, 19>>}

TripleOf(n) == <<n.platformID, n.platEncID, n.langID>>

RecordsOf(names, id) == {i \in DOMAIN names : names[i].nameID = id}

\* The records of the other name ids, in their order.
Foreign(names) ==
  LET NotOwned(n) == n.nameID \notin OwnedIds
  IN SelectSeq(names, NotOwned)

\* C14 (naming table ownership): after set_font_metadata the naming table holds
\* for each of the ids 0, 1, 2, 3, 4, 5, 6, 8, 11, 13, 14, 19 exactly three
\* records, one for each of the triples (3,1,0x0404), (3,1,0x0409), (1,0,19),
\* none of them a record the table held before the call; the records of every
\* other id are the ones from before the call, in their order; and a second
\* call with the same arguments gives the same table.
C14_NameOwnership ==
  AfterNames =>
    /\ \A id \in OwnedIds :
         /\ Cardinality(RecordsOf(base.names, id)) = 3
         /\ \A t \in OwnedTriples :
              Cardinality({i \in RecordsOf(base.names, id) : TripleOf(base.names[i]) = t}) = 1
         /\ \A i \in RecordsOf(base.names, id) : base.names[i] \notin Range(base0.names)
    /\ Foreign(base.names) = Foreign(base0.names)
    /\ set_font_metadata(base, style, "1.0.0", "1.521", "3.4.0").names = base.names

\* C14 witness: the base was loaded with a family name record (id 1) for en-US
\* on Windows and a full name record (id 4) for another triple, next to records
\* of the ids 16 and 7; after the call the two are gone, id 1 for en-US reads
\* "ENS Font", and the table holds the two foreign records and 36 new ones.
C14_Witness ==
  /\ pc = "os2"
  /\ \E i \in DOMAIN base0.names :
       base0.names[i].nameID = 1 /\ TripleOf(base0.names[i]) = <<3, 1, 1033>>
  /\ \E i \in DOMAIN base0.names :
       base0.names[i].nameID = 4 /\ TripleOf(base0.names[i]) \notin OwnedTriples
  /\ \E i \in DOMAIN base.names :
       /\ base.names[i].nameID = 1 /\ TripleOf(base.names[i]) = <<3, 1, 1033>>
       /\ base.names[i].string.text = "ENS Font"
  /\ Len(base.names) = 38
  /\ base.names[1].nameID = 16 /\ base.names[2].nameID = 7

HasVertical(font) == font.has_vmtx /\ font.has_vhea

\* C15 (vertical metrics rebuild): the vertical tables of the base differ from
\* the loaded ones only after the vertical metrics step of a base that has both
\* vmtx and vhea; that step, on such a base, gives every name of the glyph
\* order that lacked a vmtx entry one whose advance height is
\* vhea.advanceHeightMax, keeps every entry vmtx already held and sets
\* vhea.numberOfVMetrics to the length of the glyph order; besides these it
\* writes only the stored bounds of glyphs that lacked a vmtx entry, which
\* then are the bounds recalcBounds computes; on a base lacking either table
\* the step changes nothing.
C15_VmtxRebuild ==
  /\ []((base.vmtx # base0.vmtx \/ base.vhea # base0.vhea)
          => (HasVertical(base0) /\ pc \in {"save", "done"}))
  /\ [][pc = "vmtx" =>
          IF HasVertical(base)
          THEN /\ DOMAIN base'.vmtx = DOMAIN base.vmtx \cup Range(base.order)
               /\ \A n \in DOMAIN base.vmtx : base'.vmtx[n] = base.vmtx[n]
               /\ \A n \in Range(base.order) \ DOMAIN base.vmtx :
                    base'.vmtx[n][1] = base.vhea.advanceHeightMax
               /\ base'.vhea.numberOfVMetrics = Len(base.order)
               /\ base' = [base EXCEPT !.vmtx = base'.vmtx,
                                       !.vhea.numberOfVMetrics = Len(base.order),
                                       !.glyf = base'.glyf]
               /\ DOMAIN base'.glyf = DOMAIN base.glyf
               /\ \A n \in DOMAIN base.glyf :
                    /\ base'.glyf[n] = [base.glyf[n] EXCEPT !.yMax = base'.glyf[n].yMax]
                    /\ base'.glyf[n] # base.glyf[n]
                         => /\ n \in Range(base.order) \ DOMAIN base.vmtx
                            /\ base'.vmtx[n][2] = base.vhea.ascent - base'.glyf[n].yMax
          ELSE base' = base]_vars

\* C15 witness: after the step the base keeps the entry of .notdef, whose
\* advance height is not advanceHeightMax, holds an entry with advance height
\* advanceHeightMax for a transplanted composite, whose out-of-date bounds
\* (1400 on the donor's grid, 684 on the base's) have been recalculated (750,
\* the top of its component), and counts all six glyphs.
C15_Witness ==
  /\ pc = "save"
  /\ HasVertical(base)
  /\ base.vmtx[".notdef"] = <<500, 0>>
  /\ "mes_uni0041" \in DOMAIN base.vmtx
  /\ "mes_uni0041" \notin DOMAIN base0.vmtx
  /\ base.vmtx["mes_uni0041"] = <<base.vhea.advanceHeightMax, 130>>
  /\ base.glyf["mes_uni0041"].components # << >>
  /\ base.glyf["mes_uni0041"].yMax = 750
  /\ donor.glyf[src_cmap[cpA]].yMax = 684
  /\ base.vhea.numberOfVMetrics = Len(base.order)
  /\ Len(base.order) = 6

\* The run of check_versions.main is over.
VersionsEnded == vpc \in {"exited", "crashed"}

\* The upstream query was answered with a tag other than the recorded one.
LxgwDiffers == venv.lxgw.ok /\ venv.lxgw.tag_name # venv.recorded.upstream.lxgw_wenkai.tag
NerdDiffers == venv.nerd.ok /\ venv.nerd.tag_name # venv.recorded.upstream.meslo_nerd.tag

\* An upstream release query failed.
QueryFailed == ~venv.lxgw.ok \/ ~venv.nerd.ok

\* The file on disk holds the tags the queries returned and a packaging
\* version whose minor part is one above the recorded one.
RecordedUpdated ==
  LET was == Split(venv.recorded.packaging["version"], ".")
      now == Split(versions_file.content.packaging["version"], ".")
  IN /\ LxgwDiffers => versions_file.content.upstream.lxgw_wenkai.tag = venv.lxgw.tag_name
     /\ NerdDiffers => versions_file.content.upstream.meslo_nerd.tag = venv.nerd.tag_name
     /\ Len(was) = 3 /\ Len(now) = 3
     /\ ParseInt(now[2]).value = ParseInt(was[2]).value + 1

\* C16 (exit codes of check_versions): a finished run has exit status 2 when
\* the versions file is missing or an upstream release query failed; otherwise,
\* with a readable versions file, status 0 when neither upstream tag differs
\* from the recorded one, and status 1 when at least one differs, the file then
\* (unless --dry-run is given) holding the new tags and the bumped minor version.
C16_ExitCodes ==
  VersionsEnded =>
    /\ venv.file = "missing" => exit_code = 2
    /\ (venv.file = "valid" /\ QueryFailed) => exit_code = 2
    /\ (venv.file = "valid" /\ ~QueryFailed /\ ~LxgwDiffers /\ ~NerdDiffers)
         => exit_code = 0
    /\ (venv.file = "valid" /\ ~QueryFailed /\ (LxgwDiffers \/ NerdDiffers))
         => /\ exit_code = 1
            /\ ~venv.dry_run => RecordedUpdated

\* The flag was given with the value "true", or was omitted.
FlagIsTrue(flag) == flag = << >> \/ flag = << <<"t", "r", "u", "e">> >>
FlagIsFalse(flag) == flag = << <<"f", "a", "l", "s", "e">> >>

\* The section holds the upstream's changelog: when the release request gives
\* one that is not white space only, the section starts with its text (the
\* white space at its ends aside), or with its first 50 lines when it has more.
HoldsChangelog(section, fetch) ==
  LET text == Strip(fetch.body)
      lines == SplitLines(text)
      shown == IF Len(lines) <= 50 THEN text ELSE JoinLines(SubSeq(lines, 1, 50))
  IN (fetch.ok /\ text # << >>) => IsPrefix(shown, section)

\* C17 (changelog selection): in the written release notes an upstream's
\* section holds its changelog when its changed flag is true, and both sections
\* hold their changelogs when both flags are omitted or both are false.
C17_ChangelogSelection ==
  npc = "written" =>
    LET notes == notes_file[1]
        both == /\ HoldsChangelog(notes.lxgw_section, nargs.lxgw_fetch)
                /\ HoldsChangelog(notes.nerd_section, nargs.nerd_fetch)
    IN /\ FlagIsTrue(nargs.lxgw_flag)
            => HoldsChangelog(notes.lxgw_section, nargs.lxgw_fetch)
       /\ FlagIsTrue(nargs.nerd_flag)
            => HoldsChangelog(notes.nerd_section, nargs.nerd_fetch)
       /\ (nargs.lxgw_flag = << >> /\ nargs.nerd_flag = << >>) => both
       /\ (FlagIsFalse(nargs.lxgw_flag) /\ FlagIsFalse(nargs.nerd_flag)) => both

\* The donor glyph a codepoint maps to, with everything it references.
GraphOf(cp) == {src_cmap[cp]} \cup ComponentsOf(src_cmap[cp])

\* Every glyph of the graph has an outline and an hmtx entry in the donor.
GraphComplete(cp) ==
  \A n \in GraphOf(cp) : n \in DOMAIN donor.glyf /\ n \in DOMAIN donor.hmtx

\* Some glyph of the graph references itself, directly or through components.
GraphHasCycle(cp) == \E n \in GraphOf(cp) : n \in ComponentsOf(n)

\* C18 (cycle guard): copy_glyph returns normally for every donor component
\* graph whose glyphs all have an outline and an hmtx entry, with or without a
\* reference cycle: no codepoint mapped to such a graph ends in the except
\* branch of transplant_glyphs.
C18_CycleGuard ==
  \A cp \in Processed : GraphComplete(cp) => cp \notin failed

\* C19 (the donor is not mutated): every step of the run after UPM
\* normalization, so every iteration of transplant_glyphs (copy_glyph on simple
\* and composite glyphs included), set_os2_metrics and every other stage, leaves
\* the donor (cmap, outlines with their component references, hmtx, OS/2 and
\* hhea fields) as it was before the step.
C19_DonorUnchanged == [][pc # "upm" => donor' = donor]_vars

\* C19 witness: a donor rescaled from a 2048 grid had a composite
\* transplanted, whose copy in the base references "_ens_A" while the donor's
\* glyph still references "A", and set_os2_metrics has taken the donor's
\* metrics over.
C19_Witness ==
  /\ pc = "validate"
  /\ base0.upm = 1000 /\ donor.upm = 1000
  /\ donor.glyf["A"].yMax = 750
  /\ cpA \in Succeeded
  /\ donor.glyf[src_cmap[cpA]].components = <<"A">>
  /\ base.glyf["mes_uni0041"].components = <<"_ens_A">>
  /\ base.os2.sTypoAscender = donor.os2.sTypoAscender
  /\ base.hhea.ascent = donor.hhea.ascent

====
